---- MODULE Spec2Model ----
(***************************************************************************)
(* A model of the AM language front end and evaluator: lexer (lexer.rs),   *)
(* recursive-descent parser (parser.rs), tree-walking evaluator (eval.rs)  *)
(* and the REPL host that owns the definition list (repl.rs).              *)
(*                                                                         *)
(* Source text is a sequence of one-character strings (one per byte).      *)
(* Byte offsets are 0-based as in the source; Byte(bytes, i) reads one.    *)
(***************************************************************************)
EXTENDS Integers, Sequences, FiniteSets, TLC

VARIABLES
    world_defs,   \* Repl::world_defs : Vec<AlgorithmDef>
    input,        \* the line handed to the last handler
    out,          \* what the last handler reported (stdout / stderr)
    latest,       \* history: name -> the definition last accepted since the last reset
    redefined     \* history: the names accepted more than once since the last reset

vars == <<world_defs, input, out, latest, redefined>>

(***************************************************************************)
(* Characters                                                              *)
(***************************************************************************)
Lower == {"a","b","c","d","e","f","g","h","i","j","k","l","m",
          "n","o","p","q","r","s","t","u","v","w","x","y","z"}
Upper == {"A","B","C","D","E","F","G","H","I","J","K","L","M",
          "N","O","P","Q","R","S","T","U","V","W","X","Y","Z"}
Digit == {"0","1","2","3","4","5","6","7","8","9"}

is_ascii_whitespace(c) == c \in {" ", "\n", "\t", "\r", "\f"}
is_ascii_digit(c) == c \in Digit
is_ident_start(c) == c \in Lower \cup Upper \/ c = "_"
is_ident_continue(c) == c \in Lower \cup Upper \cup Digit \/ c = "_"

Byte(bytes, i) == bytes[i + 1]
\* &input[a..b]
Slice(bytes, a, b) == SubSeq(bytes, a + 1, b)

(***************************************************************************)
(* Tokens (token.rs).  A token is [t |-> kind, v |-> text]; v carries the  *)
(* payload of Ident, Number, Bool, String and Error and is <<>> otherwise. *)
(***************************************************************************)
Tok(t) == [t |-> t, v |-> <<>>]
TokV(t, v) == [t |-> t, v |-> v]
span(tok, start, end) == [tok |-> tok, start |-> start, end |-> end]

TrueText == <<"t","r","u","e">>
FalseText == <<"f","a","l","s","e">>

(***************************************************************************)
(* Lexer (lexer.rs)                                                        *)
(***************************************************************************)
TwoCharOp(a, c) ==
    CASE a = "-" /\ c = ">" -> "Arrow"
      [] a = ">" /\ c = ">" -> "DblGt"
      [] a = "|" /\ c = "|" -> "DblPipe"
      [] a = "&" /\ c = "&" -> "DblAmp"
      [] a = "=" /\ c = "=" -> "EqEq"
      [] a = "!" /\ c = "=" -> "Neq"
      [] a = "<" /\ c = "=" -> "Le"
      [] a = ">" /\ c = "=" -> "Ge"
      [] OTHER -> "none"

SingleCharOp(b) ==
    CASE b = "@" -> "At"
      [] b = "(" -> "LParen"
      [] b = ")" -> "RParen"
      [] b = "[" -> "LBracket"
      [] b = "]" -> "RBracket"
      [] b = "," -> "Comma"
      [] b = ";" -> "Semicolon"
      [] b = "_" -> "Underscore"
      [] b = "=" -> "Equal"
      [] b = "|" -> "Pipe"
      [] b = "?" -> "QMark"
      [] b = "!" -> "Bang"
      [] b = "+" -> "Plus"
      [] b = "-" -> "Minus"
      [] b = "*" -> "Star"
      [] b = "/" -> "Slash"
      [] b = "%" -> "Percent"
      [] b = "<" -> "Lt"
      [] b = ">" -> "Gt"
      [] b = "^" -> "Caret"
      [] OTHER -> "none"

\* the block comment that ends at the first "*/", whatever was opened inside it
RECURSIVE BlockLoopFlat(_, _, _)
BlockLoopFlat(bytes, i, depth) ==
    LET len == Len(bytes) IN
    IF i >= len THEN i
    ELSE LET c == Byte(bytes, i) IN
         IF c = "*" /\ i + 1 < len /\ Byte(bytes, i + 1) = "/" THEN i + 2
         ELSE BlockLoopFlat(bytes, i + 1, depth)


RECURSIVE BlockLoop(_, _, _)
BlockLoop(bytes, i, depth) ==
    LET len == Len(bytes) IN
    IF i >= len THEN i
    ELSE LET c == Byte(bytes, i) IN
         IF c = "/" /\ i + 1 < len /\ Byte(bytes, i + 1) = "*"
           THEN BlockLoop(bytes, i + 2, depth + 1)
         ELSE IF c = "*" /\ i + 1 < len /\ Byte(bytes, i + 1) = "/"
           THEN IF depth - 1 = 0 THEN i + 2
                ELSE BlockLoop(bytes, i + 2, depth - 1)
         ELSE BlockLoop(bytes, i + 1, depth)

\* i points at the '*' of the opening "/*"
consume_block_content(bytes, i) == BlockLoop(bytes, i + 1, 1)

RECURSIVE SkipLine(_, _)
SkipLine(bytes, i) ==
    IF i < Len(bytes) /\ Byte(bytes, i) # "\n" THEN SkipLine(bytes, i + 1) ELSE i

process_escape_sequence(esc) ==
    CASE esc = "n" -> "\n"
      [] esc = "t" -> "\t"
      [] esc = "r" -> "\r"
      [] OTHER -> esc

\* returns [tok, next]: the String or Error token and the cursor after it
RECURSIVE StringLoop(_, _, _, _)
StringLoop(bytes, start, i, s) ==
    LET len == Len(bytes) IN
    IF i >= len
      THEN [ts |-> span(TokV("Error", <<>>), start, i), next |-> i]
    ELSE LET ch == Byte(bytes, i)
             j == i + 1 IN
         IF ch = "\"" THEN [ts |-> span(TokV("String", s), start, j), next |-> j]
         ELSE IF ch = "\\" /\ j < len
           THEN StringLoop(bytes, start, j + 1,
                           Append(s, process_escape_sequence(Byte(bytes, j))))
         ELSE StringLoop(bytes, start, j, Append(s, ch))

lex_string_literal(bytes, start) == StringLoop(bytes, start, start + 1, <<>>)

RECURSIVE IdentEnd(_, _)
IdentEnd(bytes, i) ==
    IF i < Len(bytes) /\ is_ident_continue(Byte(bytes, i))
      THEN IdentEnd(bytes, i + 1) ELSE i

RECURSIVE DigitsEnd(_, _)
DigitsEnd(bytes, i) ==
    IF i < Len(bytes) /\ is_ascii_digit(Byte(bytes, i))
      THEN DigitsEnd(bytes, i + 1) ELSE i

NumberEnd(bytes, start) ==
    LET i == DigitsEnd(bytes, start + 1) IN
    IF i < Len(bytes) /\ Byte(bytes, i) = "." THEN DigitsEnd(bytes, i + 1) ELSE i

KeywordOrIdent(text) ==
    IF text = TrueText THEN TokV("Bool", TrueText)
    ELSE IF text = FalseText THEN TokV("Bool", FalseText)
    ELSE TokV("Ident", text)

\* the scan that, after the Error token of an unknown byte, also passes over the
\* byte that follows it
RECURSIVE LexLoopSkipAfterError(_, _, _)
LexLoopSkipAfterError(bytes, i, acc) ==
    LET len == Len(bytes) IN
    IF i >= len THEN acc
    ELSE
    LET b == Byte(bytes, i)
        two == IF i + 1 < len THEN TwoCharOp(b, Byte(bytes, i + 1)) ELSE "none"
        one == SingleCharOp(b)
    IN
    IF is_ascii_whitespace(b) THEN LexLoopSkipAfterError(bytes, i + 1, acc)
    ELSE IF two # "none"
      THEN LexLoopSkipAfterError(bytes, i + 2, Append(acc, span(Tok(two), i, i + 2)))
    ELSE IF i + 1 < len /\ b = "/" /\ Byte(bytes, i + 1) = "/"
      THEN LexLoopSkipAfterError(bytes, SkipLine(bytes, i + 2), acc)
    ELSE IF i + 1 < len /\ b = "/" /\ Byte(bytes, i + 1) = "*"
      THEN LexLoopSkipAfterError(bytes, consume_block_content(bytes, i + 1), acc)
    ELSE IF one # "none"
      THEN LexLoopSkipAfterError(bytes, i + 1, Append(acc, span(Tok(one), i, i + 1)))
    ELSE IF b = "\""
      THEN LET r == lex_string_literal(bytes, i) IN
           LexLoopSkipAfterError(bytes, r.next, Append(acc, r.ts))
    ELSE IF is_ident_start(b)
      THEN LET e == IdentEnd(bytes, i + 1) IN
           LexLoopSkipAfterError(bytes, e,
               Append(acc, span(KeywordOrIdent(Slice(bytes, i, e)), i, e)))
    ELSE IF is_ascii_digit(b)
      THEN LET e == NumberEnd(bytes, i) IN
           LexLoopSkipAfterError(bytes, e,
               Append(acc, span(TokV("Number", Slice(bytes, i, e)), i, e)))
    ELSE LexLoopSkipAfterError(bytes, i + 2, Append(acc, span(TokV("Error", <<b>>), i, i + 1)))


RECURSIVE LexLoop(_, _, _)
LexLoop(bytes, i, acc) ==
    LET len == Len(bytes) IN
    IF i >= len THEN acc
    ELSE
    LET b == Byte(bytes, i)
        two == IF i + 1 < len THEN TwoCharOp(b, Byte(bytes, i + 1)) ELSE "none"
        one == SingleCharOp(b)
    IN
    IF is_ascii_whitespace(b) THEN LexLoop(bytes, i + 1, acc)
    ELSE IF two # "none"
      THEN LexLoop(bytes, i + 2, Append(acc, span(Tok(two), i, i + 2)))
    ELSE IF i + 1 < len /\ b = "/" /\ Byte(bytes, i + 1) = "/"
      THEN LexLoop(bytes, SkipLine(bytes, i + 2), acc)
    ELSE IF i + 1 < len /\ b = "/" /\ Byte(bytes, i + 1) = "*"
      THEN LexLoop(bytes, consume_block_content(bytes, i + 1), acc)
    ELSE IF one # "none"
      THEN LexLoop(bytes, i + 1, Append(acc, span(Tok(one), i, i + 1)))
    ELSE IF b = "\""
      THEN LET r == lex_string_literal(bytes, i) IN
           LexLoop(bytes, r.next, Append(acc, r.ts))
    ELSE IF is_ident_start(b)
      THEN LET e == IdentEnd(bytes, i + 1) IN
           LexLoop(bytes, e, Append(acc, span(KeywordOrIdent(Slice(bytes, i, e)), i, e)))
    ELSE IF is_ascii_digit(b)
      THEN LET e == NumberEnd(bytes, i) IN
           LexLoop(bytes, e, Append(acc, span(TokV("Number", Slice(bytes, i, e)), i, e)))
    ELSE LexLoop(bytes, i + 1, Append(acc, span(TokV("Error", <<b>>), i, i + 1)))

lex(bytes) == LexLoop(bytes, 0, <<>>)

(***************************************************************************)
(* Numbers.  A finite f64 is modelled by the exact rational n/d it denotes *)
(* (d > 0, lowest terms); +inf / -inf are c = "inf" with n = 1 / -1; NaN   *)
(* is c = "nan".  0.0 and -0.0 are not told apart.                         *)
(***************************************************************************)
RECURSIVE GCD(_, _)
GCD(a, b) == IF b = 0 THEN a ELSE GCD(b, a % b)
Abs(a) == IF a < 0 THEN -a ELSE a
Fin(n, d) ==
    LET s == IF d < 0 THEN -1 ELSE 1
        g == GCD(Abs(n), Abs(d))
    IN [c |-> "fin", n |-> (s * n) \div g, d |-> (s * d) \div g]
Int2Num(n) == [c |-> "fin", n |-> n, d |-> 1]
INFINITY == [c |-> "inf", n |-> 1, d |-> 1]
NEG_INFINITY == [c |-> "inf", n |-> -1, d |-> 1]
NAN == [c |-> "nan", n |-> 0, d |-> 1]

DigitVal(ch) ==
    CASE ch = "0" -> 0 [] ch = "1" -> 1 [] ch = "2" -> 2 [] ch = "3" -> 3
      [] ch = "4" -> 4 [] ch = "5" -> 5 [] ch = "6" -> 6 [] ch = "7" -> 7
      [] ch = "8" -> 8 [] ch = "9" -> 9

RECURSIVE Pow10(_)
Pow10(k) == IF k = 0 THEN 1 ELSE 10 * Pow10(k - 1)

\* the digits of s (a '.' skipped) read as one decimal integer
RECURSIVE DigitsVal(_, _, _)
DigitsVal(s, i, acc) ==
    IF i > Len(s) THEN acc
    ELSE IF s[i] = "." THEN DigitsVal(s, i + 1, acc)
    ELSE DigitsVal(s, i + 1, 10 * acc + DigitVal(s[i]))

DotAt(s) == IF \E i \in 1..Len(s) : s[i] = "." 
            THEN CHOOSE i \in 1..Len(s) : s[i] = "." ELSE 0

\* str::parse::<f64> on the text of a Number token (digits, optional '.' digits)
ParseF64(s) ==
    LET dot == DotAt(s)
        frac == IF dot = 0 THEN 0 ELSE Len(s) - dot
    IN Fin(DigitsVal(s, 1, 0), Pow10(frac))

SqrtName == <<"s","q","r","t">>
AbsName == <<"a","b","s">>
InfName == <<"i","n","f">>
NaNName == <<"N","a","N">>

(***************************************************************************)
(* Expression tree (ast.rs)                                                *)
(***************************************************************************)
ENumber(x) == [k |-> "Number", x |-> x]
EBool(b) == [k |-> "Bool", b |-> b]
EIdent(name) == [k |-> "Ident", name |-> name]
ECall(is_alg, name, args) == [k |-> "Call", is_alg |-> is_alg, name |-> name, args |-> args]
EUnary(op, e) == [k |-> "Unary", op |-> op, expr |-> e]
EBin(op, l, r) == [k |-> "Bin", op |-> op, left |-> l, right |-> r]
ECase(arms, default) == [k |-> "Case", arms |-> arms, default |-> default]
EPipe(head, steps) == [k |-> "Pipe", head |-> head, steps |-> steps]
AlgorithmDef(name, params, body) == [name |-> name, params |-> params, body |-> body]

(***************************************************************************)
(* Token cursor (parser.rs, struct Tokens).  pos is 0-based.  A parse      *)
(* function returns Ok(..) with the cursor after what it consumed, or the  *)
(* panic it raised: its message, the byte the diagnostic points at, and    *)
(* whether the message went through caret_message.                         *)
(***************************************************************************)
NoneTok == Tok("None")
peek(items, pos) == IF pos < Len(items) THEN items[pos + 1].tok ELSE NoneTok
\* Tokens::next: the token taken and the cursor after it
next_pos(items, pos) == IF pos >= Len(items) THEN pos ELSE pos + 1
eat(items, pos, want) == peek(items, pos) = want

\* the byte of a diagnostic that, at end of input, points at the last token
\* instead of past it
here_byte_at_last(items, pos) ==
    IF pos < Len(items) THEN items[pos + 1].start
    ELSE IF pos # 0 /\ pos - 1 < Len(items) THEN items[pos].start
    ELSE 0


here_byte(items, pos) ==
    IF pos < Len(items) THEN items[pos + 1].start
    ELSE IF pos # 0 /\ pos - 1 < Len(items) THEN items[pos].end
    ELSE 0

Ok(node, pos) == [ok |-> TRUE, node |-> node, pos |-> pos]
OkList(list, pos) == [ok |-> TRUE, list |-> list, pos |-> pos]
Panic(msg, byte, caret) ==
    [ok |-> FALSE, err |-> [msg |-> msg, byte |-> byte, caret |-> caret]]
err_here(items, pos, msg) == Panic(msg, here_byte(items, pos), TRUE)
expect(items, pos, want, ctx) ==
    IF eat(items, pos, want) THEN OkList(<<>>, pos + 1)
    ELSE Panic("expected token", here_byte(items, pos), TRUE)

(***************************************************************************)
(* Parser (parser.rs).  One definition per parser function.  A call from   *)
(* one parser function to another is written Parse("f", items, pos, x, y), *)
(* which is f applied to the cursor and f's further arguments x, y (<<>>   *)
(* where f has none).                                                      *)
(***************************************************************************)
RECURSIVE Parse(_, _, _, _, _)
None == <<>>

parse_algorithm_name(items, pos) ==
    IF peek(items, pos).t = "Ident"
      THEN OkList(peek(items, pos).v, pos + 1)
      ELSE err_here(items, next_pos(items, pos), "expected identifier after '@'")

RECURSIVE parse_parameter_list(_, _, _)
parse_parameter_list(items, pos, params) ==
    IF peek(items, pos).t = "Ident"
      THEN LET ps == Append(params, peek(items, pos).v) IN
           IF eat(items, pos + 1, Tok("Comma"))
             THEN parse_parameter_list(items, pos + 2, ps)
             ELSE OkList(ps, pos + 1)
      ELSE OkList(params, pos)

\* AlgDef := '@' Ident '(' [Ident {',' Ident}] ')' '=' Expr
parse_alg_def(items, pos) ==
    LET a == expect(items, pos, Tok("At"), "algorithm start '@'") IN
    IF ~a.ok THEN a ELSE
    LET name == parse_algorithm_name(items, a.pos) IN
    IF ~name.ok THEN name ELSE
    LET lp == expect(items, name.pos, Tok("LParen"), "parameter list '('") IN
    IF ~lp.ok THEN lp ELSE
    LET params == parse_parameter_list(items, lp.pos, <<>>) IN
    LET rp == expect(items, params.pos, Tok("RParen"), "parameter list ')'") IN
    IF ~rp.ok THEN rp ELSE
    LET eq == expect(items, rp.pos, Tok("Equal"), "definition '='") IN
    IF ~eq.ok THEN eq ELSE
    LET body == Parse("parse_expr", items, eq.pos, None, None) IN
    IF ~body.ok THEN body ELSE
    Ok(AlgorithmDef(name.list, params.list, body.node), body.pos)

\* Expr := Case | Pipe
parse_expr(items, pos) ==
    IF peek(items, pos) = Tok("LBracket")
      THEN Parse("parse_case", items, pos, None, None)
      ELSE Parse("parse_pipe", items, pos, None, None)

parse_default_arm(items, pos) ==
    IF eat(items, pos, Tok("QMark")) \/ eat(items, pos, Tok("Arrow"))
      THEN Parse("parse_expr", items, pos + 1, None, None)
      ELSE err_here(items, pos, "expected '?' or '->' after '_' in case arm")

\* the ternary arm pushing its else branch under the condition itself, not negated
parse_question_arm_plain_else(items, pos, arms, cond) ==
    LET then_e == Parse("parse_expr", items, pos, None, None) IN
    IF ~then_e.ok THEN then_e ELSE
    IF eat(items, then_e.pos, Tok("Pipe"))
      THEN LET else_e == Parse("parse_expr", items, then_e.pos + 1, None, None) IN
           IF ~else_e.ok THEN else_e
           ELSE OkList(arms \o << <<cond, then_e.node>>, <<cond, else_e.node>> >>,
                       else_e.pos)
      ELSE OkList(Append(arms, <<cond, then_e.node>>), then_e.pos)

parse_question_arm(items, pos, arms, cond) ==
    LET then_e == Parse("parse_expr", items, pos, None, None) IN
    IF ~then_e.ok THEN then_e ELSE
    IF eat(items, then_e.pos, Tok("Pipe"))
      THEN LET else_e == Parse("parse_expr", items, then_e.pos + 1, None, None) IN
           IF ~else_e.ok THEN else_e
           ELSE OkList(arms \o << <<cond, then_e.node>>,
                                  <<EUnary("Not", cond), else_e.node>> >>,
                       else_e.pos)
      ELSE OkList(Append(arms, <<cond, then_e.node>>), then_e.pos)

\* returns the arm list with this arm's pair(s) pushed
parse_conditional_arm(items, pos, arms) ==
    LET cond == Parse("parse_or", items, pos, None, None) IN
    IF ~cond.ok THEN cond ELSE
    IF eat(items, cond.pos, Tok("QMark"))
      THEN Parse("parse_question_arm", items, cond.pos + 1, arms, cond.node)
    ELSE IF eat(items, cond.pos, Tok("Arrow"))
      THEN LET rhs == Parse("parse_expr", items, cond.pos + 1, None, None) IN
           IF ~rhs.ok THEN rhs
           ELSE OkList(Append(arms, <<cond.node, rhs.node>>), rhs.pos)
    ELSE err_here(items, cond.pos, "expected '?' or '->' after condition in case arm")

\* the loop of parse_case; default is the Option<Expr>: <<>> or <<e>>
RECURSIVE CaseLoop(_, _, _, _)
CaseLoop(items, pos, arms, default) ==
    LET r == IF eat(items, pos, Tok("Underscore"))
               THEN LET d == Parse("parse_default_arm", items, pos + 1, None, None) IN
                    IF ~d.ok THEN d
                    ELSE [ok |-> TRUE, arms |-> arms, default |-> <<d.node>>, pos |-> d.pos]
               ELSE LET c == Parse("parse_conditional_arm", items, pos, arms, None) IN
                    IF ~c.ok THEN c
                    ELSE [ok |-> TRUE, arms |-> c.list, default |-> default, pos |-> c.pos]
    IN IF ~r.ok THEN r
       ELSE IF eat(items, r.pos, Tok("Semicolon"))
         THEN CaseLoop(items, r.pos + 1, r.arms, r.default)
         ELSE r

parse_case(items, pos) ==
    LET lb == expect(items, pos, Tok("LBracket"), "case '['") IN
    IF ~lb.ok THEN lb ELSE
    LET body == CaseLoop(items, lb.pos, <<>>, <<>>) IN
    IF ~body.ok THEN body ELSE
    LET rb == expect(items, body.pos, Tok("RBracket"), "closing ']'") IN
    IF ~rb.ok THEN rb ELSE
    IF body.default = <<>>
      THEN Panic("case block missing default '_' ? expr", 0, FALSE)
      ELSE Ok(ECase(body.arms, body.default[1]), rb.pos)

\* the step loop rejecting, at parse time, a step that is no name and no call
RECURSIVE PipeLoopStrict(_, _, _, _)
PipeLoopStrict(items, pos, head, steps) ==
    IF eat(items, pos, Tok("DblGt"))
      THEN LET step == Parse("parse_or", items, pos + 1, None, None) IN
           IF ~step.ok THEN step
           ELSE IF step.node.k \notin {"Ident", "Call"}
             THEN err_here(items, pos + 1, "pipeline step must be a call or name")
           ELSE PipeLoopStrict(items, step.pos, head, Append(steps, step.node))
      ELSE IF steps = <<>> THEN Ok(head, pos) ELSE Ok(EPipe(head, steps), pos)

RECURSIVE PipeLoop(_, _, _, _)
PipeLoop(items, pos, head, steps) ==
    IF eat(items, pos, Tok("DblGt"))
      THEN LET step == Parse("parse_or", items, pos + 1, None, None) IN
           IF ~step.ok THEN step
           ELSE PipeLoop(items, step.pos, head, Append(steps, step.node))
      ELSE IF steps = <<>> THEN Ok(head, pos) ELSE Ok(EPipe(head, steps), pos)

parse_pipe(items, pos) ==
    LET head == Parse("parse_or", items, pos, None, None) IN
    IF ~head.ok THEN head ELSE PipeLoop(items, head.pos, head.node, <<>>)

make_binary_expr(op, left, right) == EBin(op, left, right)

\* the loop nesting to the right: the rest of the level becomes the right operand
RECURSIVE LeftAssocLoopRight(_, _, _, _, _)
LeftAssocLoopRight(level, operators, items, pos, node) ==
    LET found == {o \in operators : peek(items, pos) = Tok(o[1])} IN
    IF found = {} THEN Ok(node, pos)
    ELSE LET op == (CHOOSE o \in found : TRUE)[2]
             rhs == Parse(level, items, pos + 1, None, None) IN
         IF ~rhs.ok THEN rhs
         ELSE LET rest == LeftAssocLoopRight(level, operators, items, rhs.pos, rhs.node) IN
              IF ~rest.ok THEN rest
              ELSE Ok(make_binary_expr(op, node, rest.node), rest.pos)


\* the loop of parse_binary_left_associative; operators is the (token, op) table
RECURSIVE LeftAssocLoop(_, _, _, _, _)
LeftAssocLoop(level, operators, items, pos, node) ==
    LET found == {o \in operators : peek(items, pos) = Tok(o[1])} IN
    IF found = {} THEN Ok(node, pos)
    ELSE LET op == (CHOOSE o \in found : TRUE)[2]
             rhs == Parse(level, items, pos + 1, None, None) IN
         IF ~rhs.ok THEN rhs
         ELSE LeftAssocLoop(level, operators, items, rhs.pos,
                            make_binary_expr(op, node, rhs.node))

\* next_level is the name of the parser function of the next level
parse_binary_left_associative(next_level, operators, items, pos) ==
    LET first == Parse(next_level, items, pos, None, None) IN
    IF ~first.ok THEN first
    ELSE LeftAssocLoop(next_level, operators, items, first.pos, first.node)

parse_or(items, pos) ==
    parse_binary_left_associative("parse_and", {<<"DblPipe", "Or">>}, items, pos)

parse_and(items, pos) ==
    parse_binary_left_associative("parse_cmp", {<<"DblAmp", "And">>}, items, pos)

CmpOp(tok) ==
    CASE tok.t \in {"EqEq", "Equal"} -> "Eq"
      [] tok.t = "Neq" -> "Ne"
      [] tok.t = "Le" -> "Le"
      [] tok.t = "Ge" -> "Ge"
      [] tok.t = "Lt" -> "Lt"
      [] tok.t = "Gt" -> "Gt"
      [] OTHER -> "none"

parse_cmp(items, pos) ==
    LET node == Parse("parse_add", items, pos, None, None) IN
    IF ~node.ok THEN node ELSE
    LET op == CmpOp(peek(items, node.pos)) IN
    IF op = "none" THEN node
    ELSE LET rhs == Parse("parse_add", items, node.pos + 1, None, None) IN
         IF ~rhs.ok THEN rhs ELSE Ok(EBin(op, node.node, rhs.node), rhs.pos)

parse_add(items, pos) ==
    parse_binary_left_associative("parse_mul",
        {<<"Plus", "Add">>, <<"Minus", "Sub">>}, items, pos)

parse_mul(items, pos) ==
    parse_binary_left_associative("parse_pow",
        {<<"Star", "Mul">>, <<"Slash", "Div">>, <<"Percent", "Mod">>}, items, pos)

\* the power level grouping to the left like the levels below it
parse_pow_left(items, pos) ==
    parse_binary_left_associative("parse_unary", {<<"Caret", "Pow">>}, items, pos)


parse_pow(items, pos) ==
    LET node == Parse("parse_unary", items, pos, None, None) IN
    IF ~node.ok THEN node ELSE
    IF peek(items, node.pos) = Tok("Caret")
      THEN LET rhs == Parse("parse_pow", items, node.pos + 1, None, None) IN
           IF ~rhs.ok THEN rhs ELSE Ok(EBin("Pow", node.node, rhs.node), rhs.pos)
      ELSE node

parse_unary(items, pos) ==
    IF eat(items, pos, Tok("Minus"))
      THEN LET e == Parse("parse_unary", items, pos + 1, None, None) IN
           IF ~e.ok THEN e ELSE Ok(EUnary("Neg", e.node), e.pos)
    ELSE IF eat(items, pos, Tok("Bang"))
      THEN LET e == Parse("parse_unary", items, pos + 1, None, None) IN
           IF ~e.ok THEN e ELSE Ok(EUnary("Not", e.node), e.pos)
    ELSE Parse("parse_postfix", items, pos, None, None)

parse_postfix(items, pos) ==
    LET node == Parse("parse_primary", items, pos, None, None) IN
    IF ~node.ok THEN node
    ELSE Parse("parse_function_calls", items, node.pos, node.node, None)

parse_number(items, pos, s) == Ok(ENumber(ParseF64(s)), pos)

parse_algorithm_call(items, pos) ==
    IF peek(items, pos).t = "Ident"
      THEN Ok(ECall(TRUE, peek(items, pos).v, <<>>), pos + 1)
      ELSE err_here(items, next_pos(items, pos), "expected identifier after '@'")

\* ts.next() has already consumed the token when a match arm runs
parse_primary(items, pos) ==
    LET t == peek(items, pos)
        after == next_pos(items, pos) IN
    CASE t.t = "Number" -> parse_number(items, after, t.v)
      [] t.t = "Bool" -> Ok(EBool(t.v = TrueText), after)
      [] t.t = "Ident" -> Ok(EIdent(t.v), after)
      [] t.t = "At" -> parse_algorithm_call(items, after)
      [] t.t = "LParen" -> Parse("parse_parenthesized", items, after, None, None)
      [] OTHER -> err_here(items, after, "unexpected token in expression")

parse_parenthesized(items, pos) ==
    LET e == Parse("parse_expr", items, pos, None, None) IN
    IF ~e.ok THEN e ELSE
    IF peek(items, e.pos) = Tok("RParen") THEN Ok(e.node, e.pos + 1)
    ELSE err_here(items, next_pos(items, e.pos), "expected ')'")

attach_call_to_node(items, pos, node, args) ==
    IF node.k = "Ident" THEN Ok(ECall(FALSE, node.name, args), pos)
    ELSE IF node.k = "Call" /\ node.is_alg THEN Ok(ECall(TRUE, node.name, args), pos)
    ELSE err_here(items, pos, "cannot call non-name expression")

RECURSIVE ArgLoop(_, _, _)
ArgLoop(items, pos, args) ==
    IF peek(items, pos) = Tok("Comma")
      THEN LET a == Parse("parse_expr", items, pos + 1, None, None) IN
           IF ~a.ok THEN a ELSE ArgLoop(items, a.pos, Append(args, a.node))
      ELSE OkList(args, pos)

parse_argument_list(items, pos) ==
    IF peek(items, pos) # NoneTok /\ peek(items, pos) # Tok("RParen")
      THEN LET a == Parse("parse_expr", items, pos, None, None) IN
           IF ~a.ok THEN a ELSE ArgLoop(items, a.pos, <<a.node>>)
      ELSE OkList(<<>>, pos)

RECURSIVE parse_function_calls(_, _, _)
parse_function_calls(items, pos, node) ==
    IF peek(items, pos) = Tok("LParen")
      THEN LET args == parse_argument_list(items, pos + 1) IN
           IF ~args.ok THEN args ELSE
           LET rp == expect(items, args.pos, Tok("RParen"), "closing ')' of call") IN
           IF ~rp.ok THEN rp ELSE
           LET n == attach_call_to_node(items, rp.pos, node, args.list) IN
           IF ~n.ok THEN n ELSE parse_function_calls(items, n.pos, n.node)
      ELSE Ok(node, pos)

Parse(f, items, pos, x, y) ==
    CASE f = "parse_expr" -> parse_expr(items, pos)
      [] f = "parse_case" -> parse_case(items, pos)
      [] f = "parse_default_arm" -> parse_default_arm(items, pos)
      [] f = "parse_conditional_arm" -> parse_conditional_arm(items, pos, x)
      [] f = "parse_question_arm" -> parse_question_arm(items, pos, x, y)
      [] f = "parse_pipe" -> parse_pipe(items, pos)
      [] f = "parse_or" -> parse_or(items, pos)
      [] f = "parse_and" -> parse_and(items, pos)
      [] f = "parse_cmp" -> parse_cmp(items, pos)
      [] f = "parse_add" -> parse_add(items, pos)
      [] f = "parse_mul" -> parse_mul(items, pos)
      [] f = "parse_pow" -> parse_pow(items, pos)
      [] f = "parse_unary" -> parse_unary(items, pos)
      [] f = "parse_postfix" -> parse_postfix(items, pos)
      [] f = "parse_primary" -> parse_primary(items, pos)
      [] f = "parse_parenthesized" -> parse_parenthesized(items, pos)
      [] f = "parse_function_calls" -> parse_function_calls(items, pos, x)

(***************************************************************************)
(* f64 arithmetic on the modelled numbers.  A result that is not an exact  *)
(* binary fraction (1/3, sqrt(2), 2 ^ 0.5) has no representation here and  *)
(* is UNMODELLED; an evaluation that meets one ends "unmodelled".          *)
(***************************************************************************)
UNMODELLED == [c |-> "unmodelled", n |-> 0, d |-> 1]

RECURSIVE IsPow2(_)
IsPow2(d) == d = 1 \/ (d % 2 = 0 /\ IsPow2(d \div 2))

Exact(x) == IF x.c = "fin" /\ ~IsPow2(x.d) THEN UNMODELLED ELSE x
Sign(x) == IF x.n < 0 THEN -1 ELSE IF x.n > 0 THEN 1 ELSE 0
Inf(sign) == IF sign < 0 THEN NEG_INFINITY ELSE INFINITY
AnyOf(a, b, c) == a.c = c \/ b.c = c

NumNeg(a) ==
    CASE a.c = "fin" -> Fin(-a.n, a.d)
      [] a.c = "inf" -> Inf(-a.n)
      [] OTHER -> a

NumAdd(a, b) ==
    IF AnyOf(a, b, "unmodelled") THEN UNMODELLED
    ELSE IF AnyOf(a, b, "nan") THEN NAN
    ELSE IF a.c = "inf" /\ b.c = "inf" THEN (IF a.n = b.n THEN a ELSE NAN)
    ELSE IF a.c = "inf" THEN a
    ELSE IF b.c = "inf" THEN b
    ELSE Exact(Fin(a.n * b.d + b.n * a.d, a.d * b.d))

NumSub(a, b) == NumAdd(a, NumNeg(b))

NumMul(a, b) ==
    IF AnyOf(a, b, "unmodelled") THEN UNMODELLED
    ELSE IF AnyOf(a, b, "nan") THEN NAN
    ELSE IF AnyOf(a, b, "inf")
      THEN (IF Sign(a) * Sign(b) = 0 THEN NAN ELSE Inf(Sign(a) * Sign(b)))
    ELSE Exact(Fin(a.n * b.n, a.d * b.d))

NumDiv(a, b) ==
    IF AnyOf(a, b, "unmodelled") THEN UNMODELLED
    ELSE IF AnyOf(a, b, "nan") THEN NAN
    ELSE IF a.c = "inf" /\ b.c = "inf" THEN NAN
    ELSE IF a.c = "inf" THEN Inf(a.n * (IF Sign(b) < 0 THEN -1 ELSE 1))
    ELSE IF b.c = "inf" THEN Int2Num(0)
    ELSE IF b.n = 0 THEN (IF a.n = 0 THEN NAN ELSE Inf(Sign(a)))
    ELSE Exact(Fin(a.n * b.d, a.d * b.n))

\* the integer part of n/d, rounded toward zero
Trunc(n, d) == IF n >= 0 THEN n \div d ELSE -((-n) \div d)

\* f64 % : the remainder has the sign of the dividend
NumMod(a, b) ==
    IF AnyOf(a, b, "unmodelled") THEN UNMODELLED
    ELSE IF AnyOf(a, b, "nan") THEN NAN
    ELSE IF a.c = "inf" THEN NAN
    ELSE IF b.c = "inf" THEN a
    ELSE IF b.n = 0 THEN NAN
    ELSE LET q == Trunc(a.n * b.d, Abs(a.d * b.n)) * (IF b.n < 0 THEN -1 ELSE 1)
         IN Exact(Fin(a.n * b.d - q * b.n * a.d, a.d * b.d))

RECURSIVE IntPow(_, _)
IntPow(x, e) == IF e = 0 THEN 1 ELSE x * IntPow(x, e - 1)

\* f64::powf
NumPow(a, b) ==
    IF AnyOf(a, b, "unmodelled") THEN UNMODELLED
    ELSE IF b.c = "fin" /\ b.n = 0 THEN Int2Num(1)
    ELSE IF a.c = "fin" /\ a.n = a.d THEN Int2Num(1)
    ELSE IF AnyOf(a, b, "nan") THEN NAN
    ELSE IF a.c = "fin" /\ b.c = "fin" /\ b.d = 1
      THEN IF b.n > 0 THEN Exact(Fin(IntPow(a.n, b.n), IntPow(a.d, b.n)))
           ELSE IF a.n = 0 THEN INFINITY
           ELSE Exact(Fin(IntPow(a.d, -b.n), IntPow(a.n, -b.n)))
    ELSE UNMODELLED

NumLt(a, b) ==
    IF AnyOf(a, b, "nan") THEN FALSE
    ELSE IF a.c = "inf" THEN a.n < 0 /\ ~(b.c = "inf" /\ b.n < 0)
    ELSE IF b.c = "inf" THEN b.n > 0
    ELSE a.n * b.d < b.n * a.d

\* IEEE ==
F64Eq(a, b) == ~AnyOf(a, b, "nan") /\ a = b

\* the equality helper without the NaN case: a == b of IEEE 754
num_eq_ieee(a, b) == F64Eq(a, b)


\* Equality helper: floating-point equality with NaN handling
num_eq(a, b) == IF a.c = "nan" /\ b.c = "nan" THEN TRUE ELSE F64Eq(a, b)

IsSquare(n) == \E r \in 0..n : r * r = n
ISqrt(n) == CHOOSE r \in 0..n : r * r = n

\* f64::sqrt
NumSqrt(a) ==
    CASE a.c = "unmodelled" -> UNMODELLED
      [] a.c = "nan" -> NAN
      [] a.c = "inf" -> IF a.n > 0 THEN INFINITY ELSE NAN
      [] OTHER -> IF a.n < 0 THEN NAN
                  ELSE IF IsSquare(a.n) /\ IsSquare(a.d)
                    THEN Fin(ISqrt(a.n), ISqrt(a.d))
                  ELSE UNMODELLED

\* f64::abs
NumAbs(a) ==
    CASE a.c = "fin" -> Fin(Abs(a.n), a.d)
      [] a.c = "inf" -> INFINITY
      [] OTHER -> a

(***************************************************************************)
(* Evaluator (eval.rs).  An evaluation returns                             *)
(*   st = "ok" with val, st = "err" with the runtime error (msg, name),    *)
(*   st = "abort" when the native stack is exhausted (the process dies),   *)
(*   st = "unmodelled" when a number left the modelled domain,             *)
(* and tr, the eval_expr invocations made so far, in order: each entry is  *)
(* the node evaluated and the algorithm frame it ran in.                   *)
(***************************************************************************)
VNumber(x) == [k |-> "Number", x |-> x]
VBool(b) == [k |-> "Bool", b |-> b]

ROk(val, tr) == [st |-> "ok", val |-> val, tr |-> tr]
RErr(msg, name, tr) == [st |-> "err", msg |-> msg, name |-> name, tr |-> tr]
RAbort(tr) == [st |-> "abort", tr |-> tr]
RUnmodelled(tr) == [st |-> "unmodelled", tr |-> tr]
WithTr(r, tr) == [r EXCEPT !.tr = tr]
\* Ok(Value::Number(x)) for a computed x
RNum(x, tr) == IF x.c = "unmodelled" THEN RUnmodelled(tr) ELSE ROk(VNumber(x), tr)

\* HashMap::insert
Insert(m, key, v) == [x \in DOMAIN m \cup {key} |-> IF x = key THEN v ELSE m[x]]
EmptyMap == [x \in {} |-> {}]

\* the zip pairing the parameters with the arguments taken from the far end
RECURSIVE BindParamsReversed(_, _, _, _)
BindParamsReversed(vars_, params, args, i) ==
    IF i > Len(params) THEN vars_
    ELSE BindParamsReversed(Insert(vars_, params[i], args[Len(args) + 1 - i]),
                            params, args, i + 1)

RECURSIVE BindParams(_, _, _, _)
BindParams(vars_, params, args, i) ==
    IF i > Len(params) THEN vars_
    ELSE BindParams(Insert(vars_, params[i], args[i]), params, args, i + 1)

with_constants(vars_) ==
    Insert(Insert(vars_, InfName, VNumber(INFINITY)), NaNName, VNumber(NAN))

\* the frame in which an argument bound to inf or NaN wins over the constant
with_params_over_constants(params, args) ==
    BindParams(with_constants(EmptyMap), params, args, 1)


\* Env::with_params, past the length check
with_params(params, args) == with_constants(BindParams(EmptyMap, params, args, 1))

\* Env::base
base == with_constants(EmptyMap)

RECURSIVE WorldLoop(_, _, _)
WorldLoop(algs, defs, i) ==
    IF i > Len(defs) THEN algs
    ELSE WorldLoop(Insert(algs, defs[i].name, defs[i]), defs, i + 1)

\* World::new
WorldNew(defs) == WorldLoop(EmptyMap, defs, 1)

\* the native stack: algorithm frames nested deeper than this overflow it
StackLimit == 4

\* Display of a usize
RECURSIVE UsizeText(_)
UsizeText(n) ==
    IF n < 10 THEN <<(<<"0","1","2","3","4","5","6","7","8","9">>)[n + 1]>>
    ELSE UsizeText(n \div 10) \o UsizeText(n % 10)

\* the tail "expected {}, got {}" of the argument-count message
ExpectedGot(n, k) ==
    <<"e","x","p","e","c","t","e","d"," ">> \o UsizeText(n)
        \o <<","," ","g","o","t"," ">> \o UsizeText(k)
\* the tail "got {}" of a built-in's message
Got(k) == <<"g","o","t"," ">> \o UsizeText(k)

\* one eval_expr invocation: the node, the number of algorithm frames below it
\* and the algorithm whose frame it runs in (<<>> for the base frame)
Invocation(e, stack) ==
    [e |-> e, depth |-> Len(stack),
     alg |-> IF stack = <<>> THEN <<>> ELSE stack[Len(stack)]]

RECURSIVE eval_expr(_, _, _, _), call_name(_, _, _, _, _, _), apply_step(_, _, _, _, _),
          EvalArgs(_, _, _, _, _, _, _), EvalArms(_, _, _, _, _, _),
          EvalSteps(_, _, _, _, _, _, _)

\* the match on op in the Bin arm, both operands already evaluated
apply_bin(op, lv, rv, tr) ==
    LET num == lv.k = "Number" /\ rv.k = "Number" IN
    IF op \in {"Add", "Sub", "Mul", "Div", "Mod", "Pow",
               "Eq", "Ne", "Lt", "Le", "Gt", "Ge"}
      THEN IF ~num THEN RErr("expected number", <<>>, tr)
           ELSE LET a == lv.x
                    b == rv.x IN
                CASE op = "Add" -> RNum(NumAdd(a, b), tr)
                  [] op = "Sub" -> RNum(NumSub(a, b), tr)
                  [] op = "Mul" -> RNum(NumMul(a, b), tr)
                  [] op = "Div" -> RNum(NumDiv(a, b), tr)
                  [] op = "Mod" -> RNum(NumMod(a, b), tr)
                  [] op = "Pow" -> RNum(NumPow(a, b), tr)
                  [] op = "Eq" -> ROk(VBool(num_eq(a, b)), tr)
                  [] op = "Ne" -> ROk(VBool(~num_eq(a, b)), tr)
                  [] op = "Lt" -> ROk(VBool(NumLt(a, b)), tr)
                  [] op = "Le" -> ROk(VBool(NumLt(a, b) \/ F64Eq(a, b)), tr)
                  [] op = "Gt" -> ROk(VBool(NumLt(b, a)), tr)
                  [] op = "Ge" -> ROk(VBool(NumLt(b, a) \/ F64Eq(a, b)), tr)
    ELSE IF op = "And"
      \* lv.as_bool()? && rv.as_bool()? : Rust's && skips its right side on false
      THEN IF lv.k # "Bool" THEN RErr("expected bool", <<>>, tr)
           ELSE IF ~lv.b THEN ROk(VBool(FALSE), tr)
           ELSE IF rv.k # "Bool" THEN RErr("expected bool", <<>>, tr)
           ELSE ROk(VBool(rv.b), tr)
    ELSE \* Or: lv.as_bool()? || rv.as_bool()?
         IF lv.k # "Bool" THEN RErr("expected bool", <<>>, tr)
         ELSE IF lv.b THEN ROk(VBool(TRUE), tr)
         ELSE IF rv.k # "Bool" THEN RErr("expected bool", <<>>, tr)
         ELSE ROk(VBool(rv.b), tr)

apply_unary(op, v, tr) ==
    IF op = "Neg"
      THEN IF v.k = "Number" THEN RNum(NumNeg(v.x), tr)
           ELSE RErr("expected number", <<>>, tr)
      ELSE IF v.k = "Bool" THEN ROk(VBool(~v.b), tr)
           ELSE RErr("expected bool", <<>>, tr)

\* the built-in table at the end of call_name
builtin(name, vals, tr) ==
    IF name = SqrtName
      THEN IF Len(vals) # 1 THEN RErr("sqrt expects 1 arg", Got(Len(vals)), tr)
           ELSE IF vals[1].k # "Number" THEN RErr("expected number", <<>>, tr)
           ELSE RNum(NumSqrt(vals[1].x), tr)
    ELSE IF name = AbsName
      THEN IF Len(vals) # 1 THEN RErr("abs expects 1 arg", Got(Len(vals)), tr)
           ELSE IF vals[1].k # "Number" THEN RErr("expected number", <<>>, tr)
           ELSE RNum(NumAbs(vals[1].x), tr)
    ELSE RErr("unknown function", name, tr)

\* call_name consulting the built-in table before the registry
call_name_builtins_first(world, env, is_alg, name, vals, stack) ==
    IF ~is_alg /\ name \in {SqrtName, AbsName} THEN builtin(name, vals, <<>>)
    ELSE IF is_alg \/ name \in DOMAIN world
      THEN IF name \notin DOMAIN world THEN RErr("unknown algorithm", name, <<>>)
           ELSE LET alg == world[name] IN
                IF Len(alg.params) # Len(vals)
                  THEN RErr("argument count mismatch",
                            ExpectedGot(Len(alg.params), Len(vals)), <<>>)
                ELSE IF Len(stack) + 1 > StackLimit THEN RAbort(<<>>)
                ELSE eval_expr(world, with_params(alg.params, vals), alg.body,
                               Append(stack, name))
      ELSE builtin(name, vals, <<>>)

\* call_name building the new frame on top of the caller's bindings
call_name_dynamic_scope(world, env, is_alg, name, vals, stack) ==
    IF is_alg \/ name \in DOMAIN world
      THEN IF name \notin DOMAIN world THEN RErr("unknown algorithm", name, <<>>)
           ELSE LET alg == world[name] IN
                IF Len(alg.params) # Len(vals)
                  THEN RErr("argument count mismatch",
                            ExpectedGot(Len(alg.params), Len(vals)), <<>>)
                ELSE IF Len(stack) + 1 > StackLimit THEN RAbort(<<>>)
                ELSE eval_expr(world, with_constants(BindParams(env, alg.params, vals, 1)),
                               alg.body, Append(stack, name))
      ELSE builtin(name, vals, <<>>)

\* call_name without the length check of Env::with_params: zip stops at the
\* shorter of the parameters and the arguments
call_name_unchecked(world, env, is_alg, name, vals, stack) ==
    IF is_alg \/ name \in DOMAIN world
      THEN IF name \notin DOMAIN world THEN RErr("unknown algorithm", name, <<>>)
           ELSE LET alg == world[name]
                    n == IF Len(alg.params) < Len(vals) THEN Len(alg.params) ELSE Len(vals)
                IN
                IF Len(stack) + 1 > StackLimit THEN RAbort(<<>>)
                ELSE eval_expr(world, with_params(SubSeq(alg.params, 1, n), vals),
                               alg.body, Append(stack, name))
      ELSE builtin(name, vals, <<>>)

\* env is the caller's frame, which call_name receives and does not read
call_name(world, env, is_alg, name, vals, stack) ==
    IF is_alg \/ name \in DOMAIN world
      THEN IF name \notin DOMAIN world THEN RErr("unknown algorithm", name, <<>>)
           ELSE LET alg == world[name] IN
                IF Len(alg.params) # Len(vals)
                  THEN RErr("argument count mismatch",
                            ExpectedGot(Len(alg.params), Len(vals)), <<>>)
                ELSE IF Len(stack) + 1 > StackLimit THEN RAbort(<<>>)
                ELSE eval_expr(world, with_params(alg.params, vals), alg.body,
                               Append(stack, name))
      ELSE builtin(name, vals, <<>>)

\* evaluates args[i..] in order onto vals, then calls name
EvalArgs(world, env, is_alg, name, args, vals, stack) ==
    IF args = <<>> THEN call_name(world, env, is_alg, name, vals, stack)
    ELSE LET a == eval_expr(world, env, Head(args), stack) IN
         IF a.st # "ok" THEN a
         ELSE LET r == EvalArgs(world, env, is_alg, name, Tail(args),
                                Append(vals, a.val), stack)
              IN WithTr(r, a.tr \o r.tr)

\* the arm loop without the return on a match: a later true arm replaces the result
EvalArmsLastMatch(world, env, arms, default, i, stack) ==
    IF i > Len(arms) THEN eval_expr(world, env, default, stack)
    ELSE LET c == eval_expr(world, env, arms[i][1], stack) IN
         IF c.st # "ok" THEN c
         ELSE IF c.val.k # "Bool" THEN RErr("expected bool", <<>>, c.tr)
         ELSE LET r == EvalArms(world, env, arms,
                                IF c.val.b THEN arms[i][2] ELSE default, i + 1, stack)
              IN WithTr(r, c.tr \o r.tr)

\* the for loop of the Case arm
EvalArms(world, env, arms, default, i, stack) ==
    IF i > Len(arms) THEN eval_expr(world, env, default, stack)
    ELSE LET c == eval_expr(world, env, arms[i][1], stack) IN
         IF c.st # "ok" THEN c
         ELSE IF c.val.k # "Bool" THEN RErr("expected bool", <<>>, c.tr)
         ELSE LET r == IF c.val.b THEN eval_expr(world, env, arms[i][2], stack)
                       ELSE EvalArms(world, env, arms, default, i + 1, stack)
              IN WithTr(r, c.tr \o r.tr)

apply_step(world, env, step, input_, stack) ==
    IF step.k = "Call"
      THEN EvalArgs(world, env, step.is_alg, step.name, step.args, <<input_>>, stack)
    ELSE IF step.k = "Ident"
      THEN call_name(world, env, FALSE, step.name, <<input_>>, stack)
    ELSE RErr("pipeline step must be a call or name", <<>>, <<>>)

\* the step loop taking the steps from the far end of the pipeline
EvalStepsReversed(world, env, steps, i, val, tr, stack) ==
    IF i > Len(steps) THEN ROk(val, tr)
    ELSE LET r == apply_step(world, env, steps[Len(steps) + 1 - i], val, stack) IN
         IF r.st # "ok" THEN WithTr(r, tr \o r.tr)
         ELSE EvalSteps(world, env, steps, i + 1, r.val, tr \o r.tr, stack)

\* the for loop of the Pipe arm
EvalSteps(world, env, steps, i, val, tr, stack) ==
    IF i > Len(steps) THEN ROk(val, tr)
    ELSE LET r == apply_step(world, env, steps[i], val, stack) IN
         IF r.st # "ok" THEN WithTr(r, tr \o r.tr)
         ELSE EvalSteps(world, env, steps, i + 1, r.val, tr \o r.tr, stack)

\* the Bin arm with lazy && and ||: the right operand is skipped when the left decides
eval_bin_lazy(world, env, e, stack) ==
    LET me == <<Invocation(e, stack)>>
        lv == eval_expr(world, env, e.left, stack) IN
    IF lv.st # "ok" THEN WithTr(lv, me \o lv.tr)
    ELSE IF lv.val.k = "Bool" /\ ((e.op = "And" /\ ~lv.val.b) \/ (e.op = "Or" /\ lv.val.b))
      THEN ROk(lv.val, me \o lv.tr)
    ELSE
    LET rv == eval_expr(world, env, e.right, stack) IN
    IF rv.st # "ok" THEN WithTr(rv, me \o lv.tr \o rv.tr)
    ELSE apply_bin(e.op, lv.val, rv.val, me \o lv.tr \o rv.tr)

\* the Bin arm writing the left operand's value into the environment as "it"
\* before the right operand is evaluated
eval_bin_sets_env(world, env, e, stack) ==
    LET me == <<Invocation(e, stack)>>
        lv == eval_expr(world, env, e.left, stack) IN
    IF lv.st # "ok" THEN WithTr(lv, me \o lv.tr) ELSE
    LET rv == eval_expr(world, Insert(env, <<"i","t">>, lv.val), e.right, stack) IN
    IF rv.st # "ok" THEN WithTr(rv, me \o lv.tr \o rv.tr)
    ELSE apply_bin(e.op, lv.val, rv.val, me \o lv.tr \o rv.tr)


\* the Bin arm of eval_expr
eval_bin(world, env, e, stack) ==
    LET me == <<Invocation(e, stack)>>
        lv == eval_expr(world, env, e.left, stack) IN
    IF lv.st # "ok" THEN WithTr(lv, me \o lv.tr) ELSE
    LET rv == eval_expr(world, env, e.right, stack) IN
    IF rv.st # "ok" THEN WithTr(rv, me \o lv.tr \o rv.tr)
    ELSE apply_bin(e.op, lv.val, rv.val, me \o lv.tr \o rv.tr)

eval_expr(world, env, e, stack) ==
    LET me == <<Invocation(e, stack)>> IN
    CASE e.k = "Number" -> RNum(Exact(e.x), me)
      [] e.k = "Bool" -> ROk(VBool(e.b), me)
      [] e.k = "Ident" ->
            IF e.name \in DOMAIN env THEN ROk(env[e.name], me)
            ELSE RErr("unknown identifier", e.name, me)
      [] e.k = "Unary" ->
            LET v == eval_expr(world, env, e.expr, stack) IN
            IF v.st # "ok" THEN WithTr(v, me \o v.tr)
            ELSE apply_unary(e.op, v.val, me \o v.tr)
      [] e.k = "Bin" -> eval_bin(world, env, e, stack)
      [] e.k = "Case" ->
            LET r == EvalArms(world, env, e.arms, e.default, 1, stack) IN
            WithTr(r, me \o r.tr)
      [] e.k = "Call" ->
            LET r == EvalArgs(world, env, e.is_alg, e.name, e.args, <<>>, stack) IN
            WithTr(r, me \o r.tr)
      [] e.k = "Pipe" ->
            LET h == eval_expr(world, env, e.head, stack) IN
            IF h.st # "ok" THEN WithTr(h, me \o h.tr)
            ELSE EvalSteps(world, env, e.steps, 1, h.val, me \o h.tr, stack)

(***************************************************************************)
(* Diagnostics (token.rs, caret_message).  The rendered message is kept as *)
(* its parts: the message, the line and col of the "--> input:line:col"    *)
(* row, and the source row and the caret row as sequences of characters.   *)
(***************************************************************************)
\* the scan of src up to byte: line, col and last_nl where it stops
RECURSIVE CaretScan(_, _, _, _, _, _)
CaretScan(src, byte, i, line, col, last_nl) ==
    IF i >= Len(src) \/ i >= byte
      THEN [line |-> line, col |-> col, last_nl |-> last_nl]
    ELSE IF Byte(src, i) = "\n" THEN CaretScan(src, byte, i + 1, line + 1, 1, i + 1)
    ELSE CaretScan(src, byte, i + 1, line, col + 1, last_nl)

\* the offset of the first '\n' at or after i, or src.len()
RECURSIVE LineEnd(_, _)
LineEnd(src, i) ==
    IF i >= Len(src) \/ Byte(src, i) = "\n" THEN i ELSE LineEnd(src, i + 1)

Spaces(n) == [i \in 1..n |-> " "]
\* {:>width}
PadLeft(text, width) == Spaces(width - Len(text)) \o text

caret_message(src, byte, msg) ==
    LET at == CaretScan(src, byte, 0, 1, 1, 0)
        line_text == Slice(src, at.last_nl, LineEnd(src, at.last_nl))
        caret == Spaces(at.col - 1) \o <<"^">>
    IN [msg |-> msg, line |-> at.line, col |-> at.col, line_text |-> line_text,
        source_row |-> PadLeft(UsizeText(at.line), 3) \o <<" ","|"," ">> \o line_text,
        caret_row |-> <<" ","|"," ">> \o caret \o <<" ","h","e","r","e">>]


(***************************************************************************)
(* Normalizer (normalize.rs).  A character outside ASCII is written as its *)
(* code point, "U+2227", and is one element of the text.                   *)
(***************************************************************************)
NormalizeChar(ch) ==
    CASE ch = "U+00A0" -> <<" ">>
      [] ch = "U+2227" -> <<"&","&">>
      [] ch = "U+2228" -> <<"|","|">>
      [] ch = "U+00AC" -> <<"!">>
      [] ch = "U+2260" -> <<"!","=">>
      [] ch = "U+2264" -> <<"<","=">>
      [] ch = "U+2265" -> <<">","=">>
      [] ch \in {"U+2192", "U+21D2"} -> <<"-",">">>
      [] ch = "U+2212" -> <<"-">>
      [] ch \in {"U+00D7", "U+2217"} -> <<"*">>
      [] ch = "U+00F7" -> <<"/">>
      [] ch = "U+221E" -> <<"i","n","f">>
      [] ch = "U+2261" -> <<"=","=">>
      [] OTHER -> <<ch>>

RECURSIVE normalize_unicode_to_ascii(_)
normalize_unicode_to_ascii(src) ==
    IF src = <<>> THEN <<>>
    ELSE NormalizeChar(Head(src)) \o normalize_unicode_to_ascii(Tail(src))

(***************************************************************************)
(* REPL host (repl.rs)                                                     *)
(***************************************************************************)
RECURSIVE TrimStart(_)
TrimStart(s) == IF s # <<>> /\ is_ascii_whitespace(Head(s)) THEN TrimStart(Tail(s)) ELSE s
RECURSIVE TrimEnd(_)
TrimEnd(s) ==
    IF s # <<>> /\ is_ascii_whitespace(s[Len(s)])
      THEN TrimEnd(SubSeq(s, 1, Len(s) - 1)) ELSE s
\* str::trim
trim(s) == TrimEnd(TrimStart(s))

ResetCmd == <<":","r","e","s","e","t">>
ListCmd == <<":","l","i","s","t">>
HelpCmd == <<":","h","e","l","p">>
ExitCmds == {<<"e","x","i","t">>, <<":","q">>, <<":","q","u","i","t">>}
IsCommand(text) == text \in {ResetCmd, ListCmd, HelpCmd} \cup ExitCmds

\* Iterator::position
Position(defs, name) ==
    IF \E i \in 1..Len(defs) : defs[i].name = name
      THEN CHOOSE i \in 1..Len(defs) :
               defs[i].name = name /\ \A j \in 1..(i - 1) : defs[j].name # name
      ELSE 0

\* a registry that keeps the first definition of a name and ignores the rest
add_keep_first(defs, def) ==
    IF Position(defs, def.name) # 0 THEN defs ELSE Append(defs, def)

\* the update that takes the old entry of the name out and puts the new one last
add_at_end(defs, def) ==
    LET Other(d) == d.name # def.name IN Append(SelectSeq(defs, Other), def)


\* Repl::add_or_replace_algorithm: the new definition list
add_or_replace_algorithm(defs, def) ==
    LET pos == Position(defs, def.name) IN
    IF pos # 0 THEN [defs EXCEPT ![pos] = def] ELSE Append(defs, def)

\* the "Defined: name(params)" line printed after the update
DefinedLine(defs) ==
    LET d == defs[Len(defs)] IN [kind |-> "defined", name |-> d.name, params |-> d.params]

\* Repl::evaluate_and_print_expression
evaluate_and_print_expression(defs, expr) ==
    LET r == eval_expr(WorldNew(defs), base, expr, <<>>) IN
    CASE r.st = "ok" -> [kind |-> "value", val |-> r.val, expr |-> expr, tr |-> r.tr]
      [] r.st = "err" -> [kind |-> "runtime_error", msg |-> r.msg, name |-> r.name,
                          expr |-> expr, tr |-> r.tr]
      [] r.st = "abort" -> [kind |-> "abort", expr |-> expr]
      [] OTHER -> [kind |-> "unmodelled", expr |-> expr]

\* safe_parse: the panic caught and printed
ParseErrorLine(r) == [kind |-> "parse_error", err |-> r.err]

\* the process is gone once the native stack overflowed
Running == out.kind # "abort"

\* ":reset"
ReplReset ==
    /\ Running
    /\ input' = ResetCmd
    /\ world_defs' = <<>>
    /\ out' = [kind |-> "cleared"]
    /\ latest' = EmptyMap
    /\ redefined' = {}

\* ":list"
ReplList ==
    /\ Running
    /\ input' = ListCmd
    /\ out' = [kind |-> "list",
               names |-> [i \in 1..Len(world_defs) |->
                             <<world_defs[i].name, world_defs[i].params>>]]
    /\ UNCHANGED <<world_defs, latest, redefined>>

\* process_input -> handle_algorithm_definition, for a line that starts with '@'
ReplDefine(line) ==
    LET text == trim(line)
        tokens == lex(normalize_unicode_to_ascii(text))
        r == parse_alg_def(tokens, 0)
    IN
    /\ Running
    /\ text # <<>> /\ ~IsCommand(text) /\ tokens # <<>> /\ Head(text) = "@"
    /\ input' = text
    /\ IF r.ok
         THEN /\ world_defs' = add_or_replace_algorithm(world_defs, r.node)
              /\ out' = DefinedLine(world_defs')
              /\ latest' = Insert(latest, r.node.name, r.node)
              /\ redefined' = IF r.node.name \in DOMAIN latest
                                THEN redefined \cup {r.node.name} ELSE redefined
         ELSE /\ out' = ParseErrorLine(r)
              /\ UNCHANGED <<world_defs, latest, redefined>>

\* the expression line that clears the definition list when the evaluation fails
ReplExprClearing(line) ==
    LET text == trim(line)
        tokens == lex(normalize_unicode_to_ascii(text))
        r == parse_expr(tokens, 0)
        o == IF r.ok THEN evaluate_and_print_expression(world_defs, r.node)
             ELSE ParseErrorLine(r)
    IN
    /\ Running
    /\ text # <<>> /\ ~IsCommand(text) /\ tokens # <<>> /\ Head(text) # "@"
    /\ input' = text
    /\ out' = o
    /\ world_defs' = IF o.kind = "runtime_error" THEN <<>> ELSE world_defs
    /\ UNCHANGED <<latest, redefined>>


\* process_input -> handle_expression, for any other line
ReplExpr(line) ==
    LET text == trim(line)
        tokens == lex(normalize_unicode_to_ascii(text))
        r == parse_expr(tokens, 0)
    IN
    /\ Running
    /\ text # <<>> /\ ~IsCommand(text) /\ tokens # <<>> /\ Head(text) # "@"
    /\ input' = text
    /\ out' = IF r.ok THEN evaluate_and_print_expression(world_defs, r.node)
              ELSE ParseErrorLine(r)
    /\ UNCHANGED <<world_defs, latest, redefined>>

(***************************************************************************)
(* File mode (file_processor.rs).  The parser runs over the whole file     *)
(* outside safe_parse: a panic ends the run with the diagnostic as the     *)
(* panic message.                                                          *)
(***************************************************************************)
RECURSIVE parse_all_defs(_, _, _)
parse_all_defs(items, pos, defs) ==
    IF peek(items, pos) = Tok("At")
      THEN LET d == parse_alg_def(items, pos) IN
           IF ~d.ok THEN d ELSE parse_all_defs(items, d.pos, Append(defs, d.node))
      ELSE OkList(defs, pos)

\* process_file without --ast and --call
process_file(file) ==
    LET src == normalize_unicode_to_ascii(file)
        r == parse_all_defs(lex(src), 0, <<>>)
    IN
    /\ Running
    /\ input' = file
    /\ out' = IF ~r.ok THEN ParseErrorLine(r)
              ELSE IF r.list = <<>> THEN [kind |-> "no_algorithms"]
              ELSE [kind |-> "loaded",
                    names |-> [i \in 1..Len(r.list) |-> <<r.list[i].name, r.list[i].params>>]]
    /\ UNCHANGED <<world_defs, latest, redefined>>


(***************************************************************************)
(* Input lines.  Cat glues text fragments into one line.                   *)
(***************************************************************************)
RECURSIVE Cat(_)
Cat(frags) == IF frags = <<>> THEN <<>> ELSE Head(frags) \o Cat(Tail(frags))

\* "a,b,..." for a list of fragments
RECURSIVE Commas(_)
Commas(frags) ==
    IF frags = <<>> THEN <<>>
    ELSE IF Len(frags) = 1 THEN frags[1]
    ELSE frags[1] \o <<",">> \o Commas(Tail(frags))

DefText(name, params, body) ==
    Cat(<< <<"@">>, name, <<"(">>, Commas(params), <<")"," ","="," ">>, body >>)
CallText(name, args) == Cat(<< name, <<"(">>, Commas(args), <<")">> >>)

Init ==
    /\ world_defs = <<>>
    /\ input = <<>>
    /\ out = [kind |-> "none"]
    /\ latest = EmptyMap
    /\ redefined = {}

\* definitions and calls a REPL session draws its lines from
ReplDefs ==
    { DefText(<<"F">>, << <<"x">> >>, <<"x"," ","+"," ","1">>),
      DefText(<<"F">>, << <<"x">> >>, <<"x"," ","*"," ","2">>),
      DefText(<<"F">>, << <<"a">>, <<"b">> >>, <<"a","+","b">>),
      DefText(<<"G">>, << <<"y">> >>, <<"F","(","y",")","+","y">>),
      DefText(<<"G">>, << <<"y">> >>, <<"y","-","1">>),
      <<"@","F","(","x",")"," ","="," ","x"," ","+">> }

ReplExprs ==
    { CallText(<<"F">>, << <<"3">> >>),
      CallText(<<"F">>, << <<"1">>, <<"4">> >>),
      CallText(<<"G">>, << <<"3">> >>),
      <<"1"," ","+">> }

Next ==
    \/ \E line \in ReplDefs : ReplDefine(line)
    \/ \E line \in ReplExprs : ReplExpr(line)
    \/ ReplReset
    \/ ReplList

Spec == Init /\ [][Next]_vars

(***************************************************************************)
(* Call resolution: algorithms named like the built-ins, and calls, marked *)
(* with '@' or not, to registered, built-in and unknown names.             *)
(***************************************************************************)
Marked(call) == <<"(","@">> \o call \o <<")">>

CallDefs ==
    { DefText(SqrtName, << <<"x">> >>, <<"x","*","3">>),
      DefText(AbsName, << <<"x">> >>, <<"x","+","1">>),
      DefText(<<"F">>, << <<"x">> >>, <<"x","*","2">>) }

CallExprs ==
    LET calls == { CallText(name, args) :
                     name \in {SqrtName, AbsName, <<"F">>, <<"H">>},
                     args \in { << <<"4">> >>, << <<"4">>, <<"9">> >> } }
    IN calls \cup { Marked(c) : c \in calls }

NextCall ==
    \/ \E line \in CallDefs : ReplDefine(line)
    \/ \E line \in CallExprs : ReplExpr(line)
    \/ ReplReset

SpecCall == Init /\ [][NextCall]_vars

(***************************************************************************)
(* Scoping: bodies that read a name of the caller's frame, callers that    *)
(* read a name of the callee's frame, three frames deep.                   *)
(***************************************************************************)
ScopeDefs ==
    { DefText(<<"F">>, << <<"x">> >>, <<"y">>),
      DefText(<<"F">>, << <<"x">> >>, <<"x","+","i","n","f">>),
      DefText(<<"G">>, << <<"y">> >>, <<"F","(","1",")","+","y">>),
      DefText(<<"G">>, << <<"y">> >>, <<"F","(","y",")","+","x">>),
      DefText(<<"H">>, << <<"y">> >>, <<"G","(","y",")">>) }

ScopeExprs ==
    { CallText(<<"F">>, << <<"1">> >>),
      CallText(<<"G">>, << <<"2">> >>),
      CallText(<<"H">>, << <<"3">> >>),
      <<"F","(","1",")","+","x">>,
      <<"N","a","N">> }

NextScope ==
    \/ \E line \in ScopeDefs : ReplDefine(line)
    \/ \E line \in ScopeExprs : ReplExpr(line)
    \/ ReplReset

SpecScope == Init /\ [][NextScope]_vars

(***************************************************************************)
(* Arguments: algorithms of two parameters, one with a repeated parameter  *)
(* and one with a parameter named inf; calls and pipelines with one to     *)
(* three argument values.                                                  *)
(***************************************************************************)
SubName == <<"S","u","b">>
DupName == <<"D","u","p">>

ArgDefs ==
    { DefText(SubName, << <<"a">>, <<"b">> >>, <<"a"," ","-"," ","b">>),
      DefText(DupName, << <<"a">>, <<"a">> >>, <<"a">>),
      DefText(DupName, << <<"a">>, InfName >>, <<"a","-","i","n","f">>) }

ArgLists ==
    { << <<"1">> >>, << <<"1">>, <<"4">> >>, << <<"4">>, <<"1">> >>,
      << <<"1">>, <<"4">>, <<"4">> >> }

PipeText(head, step) == head \o <<" ",">",">"," ">> \o step

ArgExprs ==
    LET names == {SubName, DupName} IN
    { CallText(name, args) : name \in names, args \in ArgLists }
    \cup { PipeText(<<"4">>, name) : name \in names }
    \cup { PipeText(<<"4">>, <<"@">> \o name) : name \in names }
    \cup { PipeText(<<"4">>, CallText(name, args)) :
             name \in names, args \in { << <<"1">> >>, << <<"1">>, <<"4">> >> } }

NextArgs ==
    \/ \E line \in ArgDefs : ReplDefine(line)
    \/ \E line \in ArgExprs : ReplExpr(line)
    \/ ReplReset

SpecArgs == Init /\ [][NextArgs]_vars

(***************************************************************************)
(* Case blocks: an arm is <<condition, result>>, the default arm has the   *)
(* condition "_"; a block is written from a sequence of arms.              *)
(***************************************************************************)
ArmText(arm) == arm[1] \o <<" ","-",">"," ">> \o arm[2]

RECURSIVE ArmsText(_)
ArmsText(arms) ==
    IF Len(arms) = 1 THEN ArmText(arms[1])
    ELSE ArmText(arms[1]) \o <<";"," ">> \o ArmsText(Tail(arms))

CaseText(arms) == <<"[">> \o ArmsText(arms) \o <<"]">>

TrueArm == << <<"t","r","u","e">>, <<"1">> >>
FalseArm == << <<"f","a","l","s","e">>, <<"q">> >>
FailingArm == << <<"q">>, <<"2">> >>
DefaultArm == << <<"_">>, <<"0">> >>
OtherDefaultArm == << <<"_">>, <<"9">> >>

\* the most conditional arms of a generated block
MaxArms == 2

InsertAt(s, p, x) == SubSeq(s, 1, p) \o <<x>> \o SubSeq(s, p + 1, Len(s))

\* blocks of up to MaxArms conditional arms with the default arm at every position,
\* the same blocks without a default arm, blocks with two default arms, and blocks
\* with an arm whose condition fails when evaluated
CaseBlocks ==
    LET conds == UNION { [1..n -> {TrueArm, FalseArm}] : n \in 0..MaxArms } IN
    UNION { { InsertAt(c, p, DefaultArm) : p \in 0..Len(c) } : c \in conds }
    \cup (conds \ {<<>>})
    \cup { <<DefaultArm, OtherDefaultArm>>, <<OtherDefaultArm, TrueArm, DefaultArm>>,
           <<TrueArm, FailingArm, DefaultArm>>, <<DefaultArm, FalseArm, TrueArm, FailingArm>>,
           <<FailingArm, TrueArm, DefaultArm>> }

SignName == <<"S","i","g","n">>

CaseDefs ==
    { DefText(SignName, << <<"x">> >>,
              CaseText(<< << <<"x",">","2">>, <<"1">> >>,
                          << <<"x","<","2">>, <<"0","-","1">> >>,
                          DefaultArm >>)),
      DefText(SignName, << <<"x">> >>,
              CaseText(<< DefaultArm,
                          << <<"x",">","2">>, <<"1">> >>,
                          << <<"x","<","2">>, <<"q">> >> >>)) }

CaseExprs ==
    { CaseText(arms) : arms \in CaseBlocks }
    \cup { CallText(SignName, << a >>) : a \in { <<"5">>, <<"1">>, <<"2">> } }

NextCase ==
    \/ \E line \in CaseDefs : ReplDefine(line)
    \/ \E line \in CaseExprs : ReplExpr(line)
    \/ ReplReset

SpecCase == Init /\ [][NextCase]_vars

(***************************************************************************)
(* Binary operators: every operator the evaluator matches on, written in   *)
(* ASCII or as the glyph the normalizer rewrites, between operands that    *)
(* are booleans, a number, or names no frame binds.                        *)
(***************************************************************************)
BinOpTexts ==
    { <<"+">>, <<"-">>, <<"*">>, <<"/">>, <<"=","=">>, <<"!","=">>,
      <<"<">>, <<"<","=">>, <<">">>, <<">","=">>, <<"&","&">>, <<"|","|">>,
      <<"U+2227">>, <<"U+2228">> }
LeftOperands == { TrueText, FalseText, <<"1">>, <<"q">> }
RightOperands == { TrueText, <<"1">>, <<"p">> }

BinText(l, op, r) == l \o <<" ">> \o op \o <<" ">> \o r

BoolExprs ==
    { BinText(l, op, r) : l \in LeftOperands, op \in BinOpTexts, r \in RightOperands }

NextBool ==
    \/ \E line \in BoolExprs : ReplExpr(line)
    \/ ReplReset

SpecBool == Init /\ [][NextBool]_vars

(***************************************************************************)
(* Chained comparisons: 1 op 2 op 3 as the whole line, as an algorithm     *)
(* body, in parentheses, as an argument and in the arms of a case block.   *)
(***************************************************************************)
ChainTexts ==
    { BinText(BinText(<<"1">>, op1, <<"2">>), op2, <<"3">>) :
        op1 \in { <<"<">>, <<"=","=">>, <<">","=">> },
        op2 \in { <<"<">>, <<"!","=">>, <<"=">> } }

\* a chain nested in a construct that closes after it
NestedChainExprs ==
    UNION { { <<"(">> \o c \o <<")">>,
              CallText(AbsName, << c >>),
              CaseText(<< <<c, <<"1">> >>, DefaultArm >>),
              CaseText(<< <<TrueText, c>>, DefaultArm >>) } : c \in ChainTexts }

ChainExprs == ChainTexts \cup NestedChainExprs
ChainDefs == { DefText(<<"F">>, << <<"a">> >>, c) : c \in ChainTexts }

NextChain ==
    \/ \E line \in ChainDefs : ReplDefine(line)
    \/ \E line \in ChainExprs : ReplExpr(line)
    \/ ReplReset

SpecChain == Init /\ [][NextChain]_vars

(***************************************************************************)
(* Pipelines: a number through up to MaxSteps steps that are bare names,    *)
(* calls and @-calls, and pipelines with a failing head or step.           *)
(***************************************************************************)
\* the most steps of a generated pipeline
MaxSteps == 2

RECURSIVE PipelineText(_, _)
PipelineText(head, steps) ==
    IF steps = <<>> THEN head
    ELSE PipelineText(PipeText(head, Head(steps)), Tail(steps))

StepTexts ==
    { SqrtName, CallText(SubName, << <<"1">> >>), <<"@">> \o CallText(SubName, << <<"q">> >>) }

PipeDefs ==
    { DefText(SubName, << <<"a">>, <<"b">> >>, <<"a"," ","-"," ","b">>),
      DefText(<<"P">>, << <<"x">> >>,
              PipelineText(<<"x">>, << CallText(SubName, << <<"1">> >>),
                                      CallText(SubName, << <<"x">> >>) >>)) }

\* steps that are numbers, booleans, operator expressions
OtherStepTexts == { <<"2">>, TrueText, <<"1"," ","+"," ","2">>, <<"-">> \o SqrtName }

\* pipelines with such a step first, after a step, before a step, and after a
\* failing head or step
OtherStepExprs ==
    { PipelineText(<<"1","6">>, <<s>>) : s \in OtherStepTexts }
    \cup { PipelineText(<<"1","6">>, <<SqrtName, s>>) : s \in OtherStepTexts }
    \cup { PipelineText(<<"1","6">>, <<s, <<"q">> >>) : s \in OtherStepTexts }
    \cup { PipelineText(<<"q">>, << <<"2">> >>),
           PipelineText(<<"1","6">>, << <<"@">> \o CallText(SubName, << <<"q">> >>), <<"2">> >>) }

PipeExprs ==
    OtherStepExprs \cup
    { PipelineText(<<"1","6">>, steps) :
        steps \in UNION { [1..n -> StepTexts] : n \in 1..MaxSteps } }
    \cup { PipelineText(<<"4">>, <<SqrtName, SqrtName>>),
           PipelineText(<<"q">>, <<SqrtName>>),
           PipelineText(<<"1","6">>, <<SubName>>),
           PipelineText(<<"1","6">>, <<AbsName, CallText(SubName, << <<"2","0">> >>), SqrtName>>),
           CallText(<<"P">>, << <<"5">> >>) }

NextPipe ==
    \/ \E line \in PipeDefs : ReplDefine(line)
    \/ \E line \in PipeExprs : ReplExpr(line)
    \/ ReplReset

SpecPipe == Init /\ [][NextPipe]_vars

(***************************************************************************)
(* Ternary arms: an arm <<cond, then, else>> is written cond ? then | else *)
(* and stands among arms <<cond, result>> written cond -> result.          *)
(***************************************************************************)
IsTernary(arm) == Len(arm) = 3
AnyArmText(arm) ==
    IF IsTernary(arm)
      THEN arm[1] \o <<" ","?"," ">> \o arm[2] \o <<" ","|"," ">> \o arm[3]
      ELSE ArmText(arm)

RECURSIVE AnyArmsText(_)
AnyArmsText(arms) ==
    IF Len(arms) = 1 THEN AnyArmText(arms[1])
    ELSE AnyArmText(arms[1]) \o <<";"," ">> \o AnyArmsText(Tail(arms))

TernaryText(arms) == <<"[">> \o AnyArmsText(arms) \o <<"]">>

\* the block with every ternary arm written as the two arms cond -> then; !(cond) -> else
RECURSIVE Expanded(_)
Expanded(arms) ==
    IF arms = <<>> THEN <<>>
    ELSE (IF IsTernary(arms[1])
            THEN << <<arms[1][1], arms[1][2]>>,
                    << <<"!","(">> \o arms[1][1] \o <<")">>, arms[1][3] >> >>
            ELSE <<arms[1]>>)
         \o Expanded(Tail(arms))

TernaryArms ==
    { << <<"0","<","1">>, <<"1">>, <<"2">> >>,
      << <<"1","<","0">>, <<"q">>, <<"5">> >>,
      << <<"0","<","1">>, <<"q">>, <<"5">> >>,
      << <<"!","q">>, <<"1">>, <<"2">> >>,
      << <<"q">>, <<"1">>, <<"2">> >>,
      << <<"1">>, <<"1">>, <<"2">> >> }

TernaryBlocks ==
    UNION { { <<t, DefaultArm>>, <<DefaultArm, t>>, <<FalseArm, t, DefaultArm>>,
              <<t, TrueArm, DefaultArm>> } : t \in TernaryArms }

\* the bodies of @T(x): ternary tests of x > 2, the second failing in its else branch
TernaryBodies ==
    { << << <<"x",">","2">>, <<"1">>, <<"0","-","1">> >>, DefaultArm >>,
      << << <<"x",">","2">>, <<"1">>, <<"q">> >>, DefaultArm >> }

TernaryDefs == { DefText(<<"T">>, << <<"x">> >>, TernaryText(b)) : b \in TernaryBodies }

TernaryExprs ==
    { TernaryText(b) : b \in TernaryBlocks }
    \cup { CallText(<<"T">>, << a >>) : a \in { <<"5">>, <<"1">>, <<"2">>, NaNName } }

NextTernary ==
    \/ \E line \in TernaryDefs : ReplDefine(line)
    \/ \E line \in TernaryExprs : ReplExpr(line)
    \/ ReplReset

SpecTernary == Init /\ [][NextTernary]_vars

(***************************************************************************)
(* Two binary operators in a row: a op1 b op2 c for every pair of          *)
(* operators of the ladder that is not a comparison chain or a power tower *)
(***************************************************************************)
\* <<written operator, BinOp, level of the ladder>>
OpTable ==
    { << <<"|","|">>, "Or", 1 >>, << <<"&","&">>, "And", 2 >>,
      << <<"<">>, "Lt", 3 >>, << <<"=","=">>, "Eq", 3 >>,
      << <<"+">>, "Add", 4 >>, << <<"-">>, "Sub", 4 >>,
      << <<"*">>, "Mul", 5 >>, << <<"/">>, "Div", 5 >>, << <<"%">>, "Mod", 5 >>,
      << <<"^">>, "Pow", 6 >> }
OpPairs ==
    { p \in OpTable \X OpTable :
        ~(p[1][3] = p[2][3] /\ p[1][2] \in {"Lt", "Eq", "Pow"}) }

PrecText(t, o1, o2) ==
    Cat(<< t[1], <<" ">>, o1[1], <<" ">>, t[2], <<" ">>, o2[1], <<" ">>, t[3] >>)

NumberTriple == << <<"1","0">>, <<"3">>, <<"2">> >>
BoolTriple == << TrueText, FalseText, FalseText >>
IdentTriple == << <<"a">>, <<"b">>, <<"c">> >>
OrAndText == PrecText(IdentTriple, << <<"|","|">>, "Or", 1 >>, << <<"&","&">>, "And", 2 >>)
SubSubText == PrecText(IdentTriple, << <<"-">>, "Sub", 4 >>, << <<"-">>, "Sub", 4 >>)
OnePlusTwoTimesThree == <<"1"," ","+"," ","2"," ","*"," ","3">>

PrecDefs == { DefText(<<"E">>, IdentTriple, body) : body \in {OrAndText, SubSubText} }
PrecExprs ==
    { PrecText(NumberTriple, p[1], p[2]) : p \in OpPairs }
    \cup { PrecText(BoolTriple, p[1], p[2]) : p \in {q \in OpPairs : q[1][3] <= 2 /\ q[2][3] <= 2} }
    \cup { OnePlusTwoTimesThree, OrAndText,
           CallText(<<"E">>, NumberTriple), CallText(<<"E">>, BoolTriple) }

NextPrec ==
    \/ \E line \in PrecDefs : ReplDefine(line)
    \/ \E line \in PrecExprs : ReplExpr(line)
    \/ ReplReset

SpecPrec == Init /\ [][NextPrec]_vars

(***************************************************************************)
(* Powers: [-|!] a ^ [-|!] b [^ c]                                         *)
(***************************************************************************)
UnaryTexts == { <<>>, <<"-">>, <<"!">> }
NoOperand == <<>>
PowText(u1, a, u2, b, c) ==
    Cat(<< u1, a, <<" ","^"," ">>, u2, b,
           IF c = NoOperand THEN <<>> ELSE <<" ","^"," ">> \o c >>)
PowOperands == { <<"2">>, <<"3">> }
PowLines ==
    { PowText(u1, a, u2, b, c) :
        u1 \in UnaryTexts, a \in PowOperands, u2 \in UnaryTexts, b \in PowOperands,
        c \in {NoOperand, <<"2">>} }
NegSquareText == PowText(<<"-">>, <<"x">>, <<>>, <<"2">>, NoOperand)
PowDefs == { DefText(<<"N">>, << <<"x">> >>, NegSquareText) }
PowExprs == PowLines \cup { CallText(<<"N">>, << a >>) : a \in PowOperands }

NextPow ==
    \/ \E line \in PowDefs : ReplDefine(line)
    \/ \E line \in PowExprs : ReplExpr(line)
    \/ ReplReset

SpecPow == Init /\ [][NextPow]_vars

(***************************************************************************)
(* Recursion: an algorithm that calls itself without end, one that stops,  *)
(* and the runtime errors of eval_expr and call_name                       *)
(***************************************************************************)
SelfCallText == DefText(<<"F">>, << <<"x">> >>, CallText(<<"F">>, << <<"x">> >>))
CountDownText ==
    DefText(<<"G">>, << <<"x">> >>,
            <<"[","x","<","1","-",">","0",";","_","-",">","G","(","x","-","1",")","]">>)
RecDefs == { SelfCallText, CountDownText,
             DefText(<<"F">>, << <<"x">> >>, <<"x"," ","+"," ","1">>) }
RecExprs ==
    { CallText(<<"F">>, << <<"1">> >>), CallText(<<"F">>, << <<"1">>, <<"2">> >>),
      CallText(<<"G">>, << <<"0">> >>), CallText(<<"G">>, << <<"2">> >>),
      CallText(<<"G">>, << CallText(<<"F">>, << <<"1">> >>) >>),
      <<"q">>, <<"1"," ","+"," ","t","r","u","e">>, <<"1","/","0">>,
      CallText(SqrtName, << <<"4">>, <<"9">> >>) }

NextRec ==
    \/ \E line \in RecDefs : ReplDefine(line)
    \/ \E line \in RecExprs : ReplExpr(line)
    \/ ReplReset

SpecRec == Init /\ [][NextRec]_vars

(***************************************************************************)
(* Evaluations side by side: l op r where l or r may call an algorithm,    *)
(* fail, or name what an earlier evaluation bound                          *)
(***************************************************************************)
PureDefs ==
    { DefText(<<"F">>, << <<"x">> >>, body) :
        body \in { <<"x"," ","*"," ","2">>, <<"x"," ","+"," ","i","t">> } }
PureLefts == { <<"3">>, CallText(<<"F">>, << <<"3">> >>), <<"q">>, TrueText }
PureRights == { <<"i","t">>, <<"x">>, CallText(<<"F">>, << <<"4">> >>), <<"1">> }
PureOps == { <<"+">>, <<"<">>, <<"&","&">> }
PureExprs ==
    { BinText(l, op, r) : l \in PureLefts, op \in PureOps, r \in PureRights }
    \cup PureLefts

NextPure ==
    \/ \E line \in PureDefs : ReplDefine(line)
    \/ \E line \in PureExprs : ReplExpr(line)
    \/ ReplReset

SpecPure == Init /\ [][NextPure]_vars

(***************************************************************************)
(* Rejected lines: lines with a token the parser cannot take, each with    *)
(* the byte that token starts at, and lines cut off after each of their    *)
(* tokens.                                                                 *)
(***************************************************************************)
\* <<line, byte offset of the token the parser rejects>>: the token stands where
\* expect wanted another one ...
MismatchCases ==
    { << <<"@","F"," ","x",")"," ","="," ","1">>, 3 >>,
      << <<"@","F","(","x"," ","y",")"," ","="," ","1">>, 5 >>,
      << <<"@","F","(","x",")"," ","1">>, 6 >>,
      << <<"F","(","1"," ","2",")">>, 4 >>,
      << <<"[","t","r","u","e"," ","-",">"," ","1"," ","2","]">>, 11 >> }
\* ... or where a primary expression, the identifier after '@' or a closing ')'
\* was required
UnexpectedCases ==
    { << <<"1"," ","+"," ",")"," ","2">>, 4 >>,
      << <<"1"," ","+"," ",")">>, 4 >>,
      << <<"1"," ","+"," ","@"," ","2"," ","3">>, 6 >>,
      << <<"(","1"," ","2",")"," ","+"," ","3">>, 3 >>,
      << <<"(","1"," ","]">>, 3 >>,
      << <<"@","1","(","x",")"," ","="," ","2">>, 1 >> }
RejectCases == MismatchCases \cup UnexpectedCases

\* the line cut off after each of its tokens
Prefixes(text) == { SubSeq(text, 1, lex(text)[k].end) : k \in 1..Len(lex(text)) }
AddPlusText == <<"@","A","d","d","(","a",",","b",")"," ","="," ","a"," ","+">>
FullLines ==
    { AddPlusText \o <<" ","b">>,
      <<"[","t","r","u","e"," ","-",">"," ","1",";"," ","_"," ","-",">"," ","(","2",")","]">>,
      <<"A","d","d","(","1",","," ","@","G","(","2",")",")"," ",">",">"," ","s">> }
EofLines ==
    UNION { Prefixes(text) : text \in FullLines }
    \cup { <<"1"," ","+"," ","/","*"," ","c"," ","*","/">> }

DiagLines == EofLines \cup { c[1] : c \in RejectCases }
NextDiag ==
    \/ \E line \in {l \in DiagLines : Head(l) = "@"} : ReplDefine(line)
    \/ \E line \in {l \in DiagLines : Head(l) # "@"} : ReplExpr(line)
    \/ ReplReset

SpecDiag == Init /\ [][NextDiag]_vars

(***************************************************************************)
(* Files of one to MaxLines lines, each a definition that parses or one    *)
(* that is rejected at some column.                                        *)
(***************************************************************************)
MaxLines == 3
FileLines ==
    { <<"@","F","(","x",")","=","1">>,
      <<"@","G","(",")"," ","="," ","(","2",")">>,
      <<"@","F","(","x",")","=",")">>,
      <<"@","H"," ","x">>,
      <<"@","K","(","a",",",")","=","a"," ","+">> }
RECURSIVE JoinLines(_)
JoinLines(lines) ==
    IF Len(lines) = 1 THEN lines[1]
    ELSE lines[1] \o <<"\n">> \o JoinLines(Tail(lines))
Files ==
    UNION { { JoinLines(ls) : ls \in [1..n -> FileLines] } : n \in 1..MaxLines }

NextFile == \E file \in Files : process_file(file)

SpecFile == Init /\ [][NextFile]_vars

(***************************************************************************)
(* The lexer by itself: lex applied to every text of up to MaxPieces       *)
(* pieces of a pool.  A byte outside ASCII is written as its value, "0xC3".*)
(***************************************************************************)
MaxPieces == 3
\* every text glued from at most MaxPieces pieces of pool
Texts(pool) ==
    UNION { { Cat(s) : s \in [1..n -> pool] } : n \in 0..MaxPieces }

\* lex(&input)
Lex ==
    /\ out.kind = "none"
    /\ out' = [kind |-> "tokens", tokens |-> lex(input)]
    /\ UNCHANGED <<world_defs, input, latest, redefined>>

InitLex(pool) ==
    /\ world_defs = <<>>
    /\ input \in Texts(pool)
    /\ out = [kind |-> "none"]
    /\ latest = EmptyMap
    /\ redefined = {}

\* names, numbers, blanks, strings and bytes that start no token
UnknownPool ==
    { <<"a">>, <<"1">>, <<" ">>, <<"#">>, <<"0xC3">>, <<"&">>, <<".">>, <<"\"">> }
InitUnknown == InitLex(UnknownPool)
SpecUnknown == InitUnknown /\ [][Lex]_vars

(***************************************************************************)
(* == and != between numbers, NaN and the infinities among them.           *)
(***************************************************************************)
EqOperands ==
    { NaNName, InfName, <<"-">> \o InfName, <<"0">>, <<"1">>,
      <<"0","/","0">>, <<"1","/","0">>, <<"2","/","2">> }
EqOpTexts == { <<"=","=">>, <<"!","=">> }
NaNEqNaNText == BinText(NaNName, <<"=","=">>, NaNName)
NaNNeNaNText == BinText(NaNName, <<"!","=">>, NaNName)
EqExprs == { BinText(l, op, r) : l \in EqOperands, op \in EqOpTexts, r \in EqOperands }

NextEq ==
    \/ \E line \in EqExprs : ReplExpr(line)
    \/ ReplReset

SpecEq == Init /\ [][NextEq]_vars

(***************************************************************************)
(* Argument lists written after a name, an @-name, a literal or a          *)
(* parenthesized expression, one list or two in a row.                     *)
(***************************************************************************)
BareHeads == { <<"f">>, SqrtName, <<"@","F">> }
OtherHeads == { <<"1">>, TrueText, <<"(","1","+","2",")">> }
ArgListTexts == { <<"(",")">>, <<"(","1",")">>, <<"(","4",")">> }
NoList == <<>>
\* written as the right operand of a product: a line that begins with '@' is read
\* as a definition
ApplyText(head, first, second) == <<"1","*">> \o head \o first \o second
ApplyExprs ==
    { ApplyText(h, a, b) : h \in BareHeads \cup OtherHeads,
                           a \in ArgListTexts, b \in ArgListTexts \cup {NoList} }
ApplyDefs == { DefText(<<"F">>, << <<"x">> >>, <<"x","+","1">>) }

NextApply ==
    \/ \E line \in ApplyDefs : ReplDefine(line)
    \/ \E line \in ApplyExprs : ReplExpr(line)
    \/ ReplReset

SpecApply == Init /\ [][NextApply]_vars

\* letters, the underscore, a digit, the literals true and false, a blank and '+'
IdentPool ==
    { <<"a">>, <<"t","m","p">>, <<"_">>, <<"1">>, TrueText, FalseText, <<" ">>, <<"+">> }
InitIdent == InitLex(IdentPool)
SpecIdent == InitIdent /\ [][Lex]_vars

\* comment openers and closers, whole and in halves, a one-level comment, a name
\* and a blank
OpenText == <<"/","*">>
CloseText == <<"*","/">>
InnerComment == OpenText \o <<"a">> \o CloseText
CommentPool == { OpenText, CloseText, InnerComment, <<"/">>, <<"*">>, <<"a">>, <<" ">> }
InitComment == InitLex(CommentPool)
SpecComment == InitComment /\ [][Lex]_vars

(***************************************************************************)
(* Algorithms with a parameter named inf or NaN, called with numbers.      *)
(***************************************************************************)
KName == <<"K">>
MName == <<"M">>
InfParamDef == DefText(KName, <<InfName>>, InfName)
ConstDefs ==
    { InfParamDef,
      DefText(KName, <<NaNName>>, NaNName),
      DefText(KName, << <<"x">>, InfName >>, <<"x","+","i","n","f">>),
      DefText(KName, << <<"x">> >>, <<"x","+","i","n","f">>),
      DefText(MName, << NaNName, <<"y">> >>, <<"y","=","=","N","a","N">>),
      DefText(MName, << <<"y">> >>, CallText(KName, << <<"y">> >>)) }
ConstExprs ==
    { CallText(name, args) :
        name \in {KName, MName},
        args \in { <<>>, << <<"1">> >>, << <<"1">>, <<"4">> >> } }
    \cup { InfName, NaNName }

NextConst ==
    \/ \E line \in ConstDefs : ReplDefine(line)
    \/ \E line \in ConstExprs : ReplExpr(line)
    \/ ReplReset

SpecConst == Init /\ [][NextConst]_vars

(***************************************************************************)
(* Properties                                                              *)
(***************************************************************************)
Evaluated == out.kind \in {"value", "runtime_error", "abort", "unmodelled"}
Traced == out.kind \in {"value", "runtime_error"}
\* a call whose written arguments are all number literals
IsLiteralCall(e) == e.k = "Call" /\ \A i \in 1..Len(e.args) : e.args[i].k = "Number"
ArgVals(e) == [i \in 1..Len(e.args) |-> VNumber(e.args[i].x)]
\* what the REPL printed is what the evaluation r ended with
SameOutcome(r) ==
    CASE r.st = "ok" -> out.kind = "value" /\ out.val = r.val
      [] r.st = "err" -> out.kind = "runtime_error" /\ out.msg = r.msg /\ out.name = r.name
      [] r.st = "abort" -> out.kind = "abort"
      [] OTHER -> out.kind = "unmodelled"
\* the invocations made after the call node and its n arguments were entered
FrameTrace(n) == SubSeq(out.tr, n + 2, Len(out.tr))
\* the outcome of running definition d on vals, per the history of definitions
RunLatest(d, vals) == eval_expr(latest, with_params(d.params, vals), d.body, <<d.name>>)

\* C1: a call to name N runs the parameter list and body of the definition of N
\* accepted last since the last reset, never an earlier one.
C1_LatestDefinitionUsed ==
    (Evaluated /\ IsLiteralCall(out.expr) /\ out.expr.name \in DOMAIN latest)
    => LET d == latest[out.expr.name]
           vals == ArgVals(out.expr)
       IN IF Len(d.params) # Len(vals)
            THEN out.kind = "runtime_error" /\ out.msg = "argument count mismatch"
            ELSE /\ SameOutcome(RunLatest(d, vals))
                 /\ Traced => FrameTrace(Len(vals)) = RunLatest(d, vals).tr

\* F was defined as x + 1, redefined as x * 2, and F(3) printed 6
C1_Witness ==
    /\ out.kind = "value" /\ out.expr = ECall(FALSE, <<"F">>, <<ENumber(Int2Num(3))>>)
    /\ <<"F">> \in redefined
    /\ latest[<<"F">>].body = EBin("Mul", EIdent(<<"x">>), ENumber(Int2Num(2)))
    /\ out.val = VNumber(Int2Num(6))

Registered(name) == \E i \in 1..Len(world_defs) : world_defs[i].name = name
\* no algorithm frame was entered during the evaluation
NoFrame == \A i \in 1..Len(out.tr) : out.tr[i].depth = 0
RuntimeError(msg) == out.kind = "runtime_error" /\ out.msg = msg

\* C2: a call that is @-marked or names a registered algorithm runs the registry's
\* algorithm (an @-marked call to an unregistered name fails, built-in or not);
\* only an unmarked, unregistered name reaches sqrt and abs; any other name is an
\* unknown-function error.
C2_CallResolution ==
    (Evaluated /\ IsLiteralCall(out.expr))
    => LET e == out.expr
           vals == ArgVals(e)
       IN IF e.is_alg \/ Registered(e.name)
            THEN IF ~Registered(e.name)
                   THEN RuntimeError("unknown algorithm") /\ out.name = e.name /\ NoFrame
                 ELSE LET d == latest[e.name] IN
                      IF Len(d.params) # Len(vals)
                        THEN RuntimeError("argument count mismatch")
                        ELSE /\ SameOutcome(RunLatest(d, vals))
                             /\ Traced => FrameTrace(Len(vals)) = RunLatest(d, vals).tr
          ELSE IF e.name = SqrtName
            THEN /\ NoFrame
                 /\ IF Len(vals) = 1
                      THEN out.kind = "value" /\ out.val = VNumber(NumSqrt(vals[1].x))
                      ELSE RuntimeError("sqrt expects 1 arg")
          ELSE IF e.name = AbsName
            THEN /\ NoFrame
                 /\ IF Len(vals) = 1
                      THEN out.kind = "value" /\ out.val = VNumber(NumAbs(vals[1].x))
                      ELSE RuntimeError("abs expects 1 arg")
          ELSE RuntimeError("unknown function") /\ out.name = e.name /\ NoFrame

\* with @sqrt(x) = x*3 registered, the unmarked sqrt(4) printed 12
C2_Witness ==
    /\ Registered(SqrtName)
    /\ out.kind = "value"
    /\ out.expr = ECall(FALSE, SqrtName, <<ENumber(Int2Num(4))>>)
    /\ out.val = VNumber(Int2Num(12))

\* the names the frame of invocation t may read
Visible(t) ==
    (IF t.depth = 0 THEN {}
     ELSE {latest[t.alg].params[j] : j \in 1..Len(latest[t.alg].params)})
    \cup {InfName, NaNName}
\* the evaluation ended at invocation i of the trace, on an unknown identifier
FailedAt(i) ==
    /\ i = Len(out.tr)
    /\ RuntimeError("unknown identifier")
    /\ out.name = out.tr[i].e.name

\* C3: in every frame, at every depth, an identifier is read only if it is one of the
\* parameters of the frame's own algorithm or inf or NaN; any other name, bound in
\* a caller or in a callee that returned, ends the evaluation with unknown identifier.
C3_LexicalScope ==
    Traced => \A i \in 1..Len(out.tr) :
                 out.tr[i].e.k = "Ident"
                 => (out.tr[i].e.name \in Visible(out.tr[i]) <=> ~FailedAt(i))

\* G(2), with @G(y) = F(1)+y and @F(x) = y: the y of G's frame is unknown in F's
C3_Witness ==
    /\ out.kind = "runtime_error" /\ out.msg = "unknown identifier" /\ out.name = <<"y">>
    /\ out.expr = ECall(FALSE, <<"G">>, <<ENumber(Int2Num(2))>>)
    /\ out.tr[Len(out.tr)].alg = <<"F">> /\ out.tr[Len(out.tr)].depth = 2
    /\ <<"y">> \in {latest[<<"G">>].params[j] : j \in 1..Len(latest[<<"G">>].params)}

ParamSet(d) == {d.params[j] : j \in 1..Len(d.params)}
\* a call by plain name, its arguments number literals, to a registered algorithm
\* that has as many parameters as the call has arguments
PlainCall ==
    /\ Evaluated /\ IsLiteralCall(out.expr) /\ ~out.expr.is_alg
    /\ Registered(out.expr.name)
    /\ Len(latest[out.expr.name].params) = Len(out.expr.args)
\* the frames that bind the i-th parameter of d to the i-th of vals, for every i,
\* and hold the constants under the names no parameter takes
PositionalFrames(d, vals) ==
    LET consts == {InfName, NaNName} \ ParamSet(d)
        values == {vals[j] : j \in 1..Len(vals)} \cup {VNumber(INFINITY), VNumber(NAN)}
    IN { env \in [ParamSet(d) \cup consts -> values] :
           /\ \A j \in 1..Len(vals) : env[d.params[j]] = vals[j]
           /\ InfName \in consts => env[InfName] = VNumber(INFINITY)
           /\ NaNName \in consts => env[NaNName] = VNumber(NAN) }
\* the printed outcome is that of the body of d in a frame of PositionalFrames
BodyValue(d, vals) ==
    \E env \in PositionalFrames(d, vals) :
        SameOutcome(eval_expr(latest, env, d.body, <<d.name>>))
DistinctParams(d) ==
    /\ \A i, j \in 1..Len(d.params) : d.params[i] = d.params[j] => i = j
    /\ ParamSet(d) \cap {InfName, NaNName} = {}

\* C4 as stated: a plain-name call Name(a1,...,an) to an algorithm of n parameters
\* returns the value of the body with, for every i, the i-th parameter bound to
\* the value of the i-th argument.
C4_PositionalBinding ==
    PlainCall => BodyValue(latest[out.expr.name], ArgVals(out.expr))

\* C4 amended: the same, for an algorithm whose n parameters are pairwise distinct
\* and none of which is named inf or NaN.
C4_PositionalBindingDistinct ==
    (PlainCall /\ DistinctParams(latest[out.expr.name]))
    => BodyValue(latest[out.expr.name], ArgVals(out.expr))

\* with @Sub(a,b) = a - b, Sub(4,1) printed 3
C4_Witness ==
    /\ PlainCall /\ out.expr.name = SubName
    /\ latest[SubName].params = << <<"a">>, <<"b">> >>
    /\ ArgVals(out.expr) = <<VNumber(Int2Num(4)), VNumber(Int2Num(1))>>
    /\ out.kind = "value" /\ out.val = VNumber(Int2Num(3))

\* the target of the call the evaluation starts with: a call with literal arguments,
\* or the first step of a pipeline with a literal head
IsLiteralStep(e) == e.k = "Ident" \/ IsLiteralCall(e)
StartsWithCall ==
    /\ Evaluated
    /\ \/ IsLiteralCall(out.expr)
       \/ /\ out.expr.k = "Pipe" /\ out.expr.head.k = "Number"
          /\ IsLiteralStep(out.expr.steps[1])
FirstTarget == IF out.expr.k = "Pipe" THEN out.expr.steps[1].name ELSE out.expr.name
\* the number of argument values of that call, the piped value counted first
FirstCount ==
    IF out.expr.k = "Pipe"
      THEN 1 + (IF out.expr.steps[1].k = "Call" THEN Len(out.expr.steps[1].args) ELSE 0)
      ELSE Len(out.expr.args)

\* C5: a call of a registered algorithm of n parameters with k # n argument values,
\* direct or as a pipe step (the piped value counted), is an argument-count-mismatch
\* runtime error, and no invocation of the evaluation runs in an algorithm frame.
C5_ArityMismatch ==
    (StartsWithCall /\ Registered(FirstTarget)
       /\ Len(latest[FirstTarget].params) # FirstCount)
    => /\ RuntimeError("argument count mismatch")
       /\ out.name = ExpectedGot(Len(latest[FirstTarget].params), FirstCount)
       /\ NoFrame

\* 4 >> Sub, with @Sub(a,b) = a - b: one value for two parameters
C5_Witness ==
    /\ out.kind = "runtime_error" /\ out.msg = "argument count mismatch"
    /\ out.expr = EPipe(ENumber(Int2Num(4)), <<EIdent(SubName)>>)
    /\ Len(latest[SubName].params) = 2

\* the tree of a fragment of text
ParseText(text) == parse_expr(lex(normalize_unicode_to_ascii(text)), 0).node
IsDefaultArm(arm) == arm[1] = <<"_">>
IsCondArm(arm) == ~IsDefaultArm(arm)
NumDefaults(block) == Len(SelectSeq(block, IsDefaultArm))
\* the non-default arms of a written block, in the order written, as trees
CondArmsOf(block) ==
    LET conds == SelectSeq(block, IsCondArm) IN
    [i \in 1..Len(conds) |-> <<ParseText(conds[i][1]), ParseText(conds[i][2])>>]
DefaultOf(block) == ParseText(SelectSeq(block, IsDefaultArm)[1][2])

\* the invocations made by evaluating the conditions of arms 1..n, in order
RECURSIVE CondTrace(_, _, _, _, _)
CondTrace(world, env, arms, n, stack) ==
    IF n = 0 THEN <<>>
    ELSE CondTrace(world, env, arms, n - 1, stack)
             \o eval_expr(world, env, arms[n][1], stack).tr

Silent == [st |-> "silent", tr |-> <<>>]
\* what C6 says of the case node e with the given arms and default: the result of
\* the first arm whose condition is true after the conditions before it were false,
\* the default's when every condition is false, with exactly those invocations;
\* nothing (Silent) when a condition fails or is no boolean before that
CaseClaim(world, env, e, arms, default, stack) ==
    LET IsBool(i, b) ==
            LET c == eval_expr(world, env, arms[i][1], stack) IN
            c.st = "ok" /\ c.val.k = "Bool" /\ c.val.b = b
        hits == { i \in 1..Len(arms) :
                    IsBool(i, TRUE) /\ \A j \in 1..(i - 1) : IsBool(j, FALSE) }
        me == <<Invocation(e, stack)>>
    IN IF hits # {}
         THEN LET i == CHOOSE i \in hits : TRUE
                  r == eval_expr(world, env, arms[i][2], stack)
              IN WithTr(r, me \o CondTrace(world, env, arms, i, stack) \o r.tr)
       ELSE IF \A i \in 1..Len(arms) : IsBool(i, FALSE)
         THEN LET r == eval_expr(world, env, default, stack)
              IN WithTr(r, me \o CondTrace(world, env, arms, Len(arms), stack) \o r.tr)
       ELSE Silent

\* a case block written at the top level, with one default arm
TopCase(block) == input = CaseText(block) /\ NumDefaults(block) = 1 /\ Evaluated
\* a call with literal arguments to an algorithm whose body is a case block
CaseCall ==
    /\ PlainCall
    /\ latest[out.expr.name].body.k = "Case"

\* C6: a case expression, at the top level or as an algorithm's body, tests the
\* non-default arms in the order written, returns the result of the first arm whose
\* condition is true and evaluates no later condition or result, and returns the
\* default's value only when no condition is true, wherever the default is written.
C6_CaseFirstMatch ==
    /\ \A block \in CaseBlocks :
          TopCase(block)
          => LET r == CaseClaim(latest, base, out.expr, CondArmsOf(block),
                                DefaultOf(block), <<>>)
             IN /\ out.expr.k = "Case"
                /\ r.st # "silent" => SameOutcome(r) /\ (Traced => out.tr = r.tr)
    /\ CaseCall
       => LET d == latest[out.expr.name]
              vals == ArgVals(out.expr)
              r == CaseClaim(latest, with_params(d.params, vals), d.body,
                             d.body.arms, d.body.default, <<d.name>>)
          IN r.st # "silent"
             => SameOutcome(r) /\ (Traced => FrameTrace(Len(vals)) = r.tr)

\* [_ -> 0; false -> q; true -> 1; q -> 2] printed 1: the default written first is
\* not taken, the arm after the match is not evaluated
C6_Witness ==
    /\ input = CaseText(<<DefaultArm, FalseArm, TrueArm, FailingArm>>)
    /\ out.kind = "value" /\ out.val = VNumber(Int2Num(1))
    /\ Len(out.tr) = 4

\* C7: every case block that parses has exactly one default arm: a block without
\* one is a parse error, and so is a block with two or more.
C7_ExactlyOneDefault ==
    \A block \in CaseBlocks :
        (input = CaseText(block) /\ out.kind # "parse_error") => NumDefaults(block) = 1

\* a binary expression at the top level
TopBin == Evaluated /\ out.expr.k = "Bin"
IsLiteral(e) == e.k \in {"Number", "Bool"}

\* C8: l && r and l || r are a value-kind-mismatch runtime error whenever either
\* operand evaluates to a Number, whatever the other operand is.
C8_LogicalNeedsBooleans ==
    (TopBin /\ out.expr.op \in {"And", "Or"}
       /\ IsLiteral(out.expr.left) /\ IsLiteral(out.expr.right)
       /\ (out.expr.left.k = "Number" \/ out.expr.right.k = "Number"))
    => RuntimeError("expected bool")

\* C9: for every binary operator, && and || included, the left operand is evaluated
\* first and in full, then the right one, before the operator is applied: a failure
\* of the left operand is the outcome; otherwise a failure of the right operand is
\* the outcome, even when the left value decides && or ||; and in every case the
\* invocations made are the node's, then the left operand's, then the right's.
C9_BothOperandsEvaluated ==
    TopBin
    => LET me == <<Invocation(out.expr, <<>>)>>
           lv == eval_expr(latest, base, out.expr.left, <<>>)
           rv == eval_expr(latest, base, out.expr.right, <<>>)
       IN IF lv.st # "ok"
            THEN SameOutcome(lv) /\ (Traced => out.tr = me \o lv.tr)
          ELSE /\ rv.st # "ok" => SameOutcome(rv)
               /\ Traced => out.tr = me \o lv.tr \o rv.tr

\* false && p: the left operand decides, and the unknown p on the right still fails
C9_Witness ==
    /\ out.kind = "runtime_error" /\ out.msg = "unknown identifier" /\ out.name = <<"p">>
    /\ out.expr = EBin("And", EBool(FALSE), EIdent(<<"p">>))

\* C10: an expression in which a complete comparison is directly followed by a second
\* comparison operator is a parse error, as the whole line, as an algorithm body and
\* nested in parentheses, arguments or case arms: no tree, no value, no definition.
C10_ChainIsParseError ==
    input \in ChainExprs \cup ChainDefs => out.kind = "parse_error"

\* the call a step stands for, given the expression whose value is piped in
StepAsCall(step, prev) ==
    IF step.k = "Ident" THEN ECall(FALSE, step.name, <<prev>>)
    ELSE ECall(step.is_alg, step.name, <<prev>> \o step.args)
\* h >> s1 >> ... >> sn written as the nested calls sn(...s1(h, args1)..., argsn)
RECURSIVE Nested(_, _, _)
Nested(head, steps, n) ==
    IF n = 0 THEN head ELSE StepAsCall(steps[n], Nested(head, steps, n - 1))
AllNamedSteps(e) == \A i \in 1..Len(e.steps) : e.steps[i].k \in {"Ident", "Call"}
\* the outcome and the invocations C11 describes for the pipeline e in frame env:
\* those of the nested calls, less the n invocations of the call nodes themselves
PipeClaim(env, e, stack) ==
    LET r == eval_expr(latest, env, Nested(e.head, e.steps, Len(e.steps)), stack) IN
    WithTr(r, SubSeq(r.tr, Len(e.steps) + 1, Len(r.tr)))
\* a pipeline evaluated at the top level / as the body of a called algorithm
TopPipe == Evaluated /\ out.expr.k = "Pipe" /\ AllNamedSteps(out.expr)
PipeCall ==
    /\ PlainCall
    /\ latest[out.expr.name].body.k = "Pipe"
    /\ AllNamedSteps(latest[out.expr.name].body)

\* C11: a pipeline evaluates its head once, then its steps left to right, each step
\* called with the previous value first and then its own arguments, which are
\* evaluated after the previous step returned, in the enclosing frame; its outcome
\* is the last step's: outcome and order of invocations are those of
\* sn(...s1(h, args1)..., argsn).
C11_PipeThreading ==
    /\ TopPipe
       => LET r == PipeClaim(base, out.expr, <<>>) IN
          /\ SameOutcome(r)
          /\ Traced => SubSeq(out.tr, 2, Len(out.tr)) = r.tr
    /\ PipeCall
       => LET d == latest[out.expr.name]
              r == PipeClaim(with_params(d.params, ArgVals(out.expr)), d.body, <<d.name>>)
          IN /\ SameOutcome(r)
             /\ Traced => SubSeq(out.tr, Len(out.expr.args) + 3, Len(out.tr)) = r.tr

\* 16 >> sqrt >> Sub(1), with @Sub(a,b) = a - b, printed 3, the value of Sub(sqrt(16), 1)
C11_Witness ==
    /\ out.kind = "value" /\ out.val = VNumber(Int2Num(3))
    /\ out.expr = EPipe(ENumber(Int2Num(16)),
                        <<EIdent(SqrtName), ECall(FALSE, SubName, <<ENumber(Int2Num(1))>>)>>)

IsNamedStep(step) == step.k \in {"Ident", "Call"}
\* the first step of pipeline e that is neither a name nor a call
FirstOtherStep(e) ==
    CHOOSE j \in 1..Len(e.steps) :
        ~IsNamedStep(e.steps[j]) /\ \A i \in 1..(j - 1) : IsNamedStep(e.steps[i])
\* the invocations made for the head and the steps before step j of pipeline e,
\* with the outcome they end in
BeforeStep(e, j) ==
    IF j = 1 THEN eval_expr(latest, base, e.head, <<>>)
    ELSE LET r == eval_expr(latest, base, EPipe(e.head, SubSeq(e.steps, 1, j - 1)), <<>>)
         IN WithTr(r, Tail(r.tr))

\* C12: a pipeline with a step that is an Or-level expression other than a name, a
\* call or an @-call parses to a Pipe node holding that step; evaluation fails at
\* that step with a runtime error, after the head and every earlier step were
\* evaluated (a failure among those is reported instead), and nothing of the step
\* or after it is evaluated.
C12_StepCheckedAtEvaluation ==
    /\ input \in OtherStepExprs
       => /\ out.kind # "parse_error"
          /\ out.expr.k = "Pipe" /\ ~AllNamedSteps(out.expr)
    /\ (Evaluated /\ out.expr.k = "Pipe" /\ ~AllNamedSteps(out.expr))
       => LET r == BeforeStep(out.expr, FirstOtherStep(out.expr))
              me == <<Invocation(out.expr, <<>>)>>
          IN IF r.st # "ok" THEN SameOutcome(r) /\ (Traced => out.tr = me \o r.tr)
             ELSE /\ RuntimeError("pipeline step must be a call or name")
                  /\ out.tr = me \o r.tr

\* 16 >> sqrt >> 1 + 2: parsed, the head and sqrt evaluated, then the runtime error
C12_Witness ==
    /\ out.kind = "runtime_error" /\ out.msg = "pipeline step must be a call or name"
    /\ out.expr = EPipe(ENumber(Int2Num(16)),
                        <<EIdent(SqrtName),
                          EBin("Add", ENumber(Int2Num(1)), ENumber(Int2Num(2)))>>)
    /\ Len(out.tr) = 2

\* the tree of the block written with two arms for every ternary arm
RECURSIVE TightArmsText(_)
TightArmsText(arms) ==
    IF arms = <<>> THEN <<>>
    ELSE arms[1][1] \o <<"-",">">> \o arms[1][2]
         \o (IF Len(arms) = 1 THEN <<>> ELSE <<";">>) \o TightArmsText(Tail(arms))
ExpandedTree(block) == ParseText(<<"[">> \o TightArmsText(Expanded(block)) \o <<"]">>)
\* the arms a written block must parse into: two for a ternary arm, one for another
ArmCount(block) ==
    Len(SelectSeq(block, IsCondArm)) + Len(SelectSeq(block, IsTernary))

\* C13: cond ? then | else parses into the two consecutive arms (cond, then) and
\* (Not(cond), else) at the arm's position, so the block is the same tree as the
\* block written cond -> then; !(cond) -> else and evaluates, at the top level and
\* as a body in a frame, to the same value or the same error.
C13_TernaryDesugar ==
    /\ \A block \in TernaryBlocks :
          input = TernaryText(block)
          => /\ Evaluated
             /\ out.expr = ExpandedTree(block)
             /\ Len(out.expr.arms) = ArmCount(block)
             /\ SameOutcome(eval_expr(latest, base, ExpandedTree(block), <<>>))
    /\ \A body \in TernaryBodies :
          /\ input = DefText(<<"T">>, << <<"x">> >>, TernaryText(body))
             => out.kind = "defined" /\ latest[<<"T">>].body = ExpandedTree(body)
          /\ (Evaluated /\ out.expr.k = "Call" /\ Registered(<<"T">>)
                /\ latest[<<"T">>].body = ExpandedTree(body)
                /\ out.expr.args[1].k \in {"Number", "Ident"})
             => LET a == out.expr.args[1]
                    v == IF a.k = "Number" THEN VNumber(a.x) ELSE base[a.name]
                IN SameOutcome(eval_expr(latest, with_params(<< <<"x">> >>, <<v>>),
                                         ExpandedTree(body), << <<"T">> >>))

\* [false -> q; 1<0 ? q | 5; _ -> 0] printed 5: the else branch, taken as the
\* arm (Not(1 < 0), 5) in third place of four
C13_Witness ==
    /\ input = TernaryText(<<FalseArm,
                             << <<"1","<","0">>, <<"q">>, <<"5">> >>,
                             DefaultArm>>)
    /\ out.kind = "value" /\ out.val = VNumber(Int2Num(5))
    /\ Len(out.expr.arms) = 3
    /\ out.expr.arms[3][1] =
          EUnary("Not", EBin("Lt", ENumber(Int2Num(1)), ENumber(Int2Num(0))))

\* the tree the ladder gives a op1 b op2 c: the operator of the higher level takes
\* its operands first, and of two operators of one level the left one does
LadderTree(t, o1, o2) ==
    LET a == ParseText(t[1])
        b == ParseText(t[2])
        c == ParseText(t[3])
    IN IF o2[3] > o1[3] THEN EBin(o1[2], a, EBin(o2[2], b, c))
       ELSE EBin(o2[2], EBin(o1[2], a, b), c)

\* C14: binary operators bind by the ladder Or < And < Cmp < Add < Mul < Pow and
\* the operators of the Or, And, Add and Mul levels group to the left: 1 + 2 * 3
\* is 7, 10 - 3 - 2 is (10 - 3) - 2 = 5, a || b && c is a || (b && c).
C14_PrecedenceLadder ==
    /\ \A p \in OpPairs : \A t \in {NumberTriple, BoolTriple} :
          input = PrecText(t, p[1], p[2])
          => /\ Evaluated
             /\ out.expr = LadderTree(t, p[1], p[2])
             /\ SameOutcome(eval_expr(latest, base, LadderTree(t, p[1], p[2]), <<>>))
    /\ input = OnePlusTwoTimesThree
       => out.kind = "value" /\ out.val = VNumber(Int2Num(7))
    /\ input = PrecText(NumberTriple, << <<"-">>, "Sub", 4 >>, << <<"-">>, "Sub", 4 >>)
       => out.kind = "value" /\ out.val = VNumber(Int2Num(5))
    /\ input = OrAndText
       => out.expr = EBin("Or", EIdent(<<"a">>), EBin("And", EIdent(<<"b">>), EIdent(<<"c">>)))
    /\ \A body \in {OrAndText, SubSubText} :
          input = DefText(<<"E">>, IdentTriple, body)
          => out.kind = "defined" /\ latest[<<"E">>].body = ParseText(body)
    /\ (Registered(<<"E">>) /\ latest[<<"E">>].body = ParseText(OrAndText)
          /\ input = CallText(<<"E">>, BoolTriple))
       => out.kind = "value" /\ out.val = VBool(TRUE)
    /\ (Registered(<<"E">>) /\ latest[<<"E">>].body = ParseText(SubSubText)
          /\ input = CallText(<<"E">>, NumberTriple))
       => out.kind = "value" /\ out.val = VNumber(Int2Num(5))

\* E(true, false, false) printed true under @E(a, b, c) = a || b && c: the other
\* grouping, (true || false) && false, is false
C14_Witness ==
    /\ Registered(<<"E">>) /\ latest[<<"E">>].body = ParseText(OrAndText)
    /\ input = CallText(<<"E">>, BoolTriple)
    /\ out.kind = "value" /\ out.val = VBool(TRUE)

UnaryOf(u, e) ==
    IF u = <<"-">> THEN EUnary("Neg", e)
    ELSE IF u = <<"!">> THEN EUnary("Not", e) ELSE e
\* the tree of [u1] a ^ [u2] b [^ c]: the sign belongs to the operand it stands
\* before, and the power to the right is the exponent of the power to the left
PowTree(u1, a, u2, b, c) ==
    EBin("Pow", UnaryOf(u1, ParseText(a)),
         IF c = NoOperand THEN UnaryOf(u2, ParseText(b))
         ELSE EBin("Pow", UnaryOf(u2, ParseText(b)), ParseText(c)))

C16_EvaluationNeverAborts ==
    Evaluated => out.kind \in {"value", "runtime_error"}

\* the outcome of l op r put together from its operands, each evaluated by itself
\* against the registry and the environment the whole expression was given
ByParts(world, env, e) ==
    LET l == eval_expr(world, env, e.left, <<>>)
        r == eval_expr(world, env, e.right, <<>>)
    IN IF l.st # "ok" THEN l
       ELSE IF r.st # "ok" THEN r
       ELSE apply_bin(e.op, l.val, r.val, <<>>)

\* C17: an evaluation, succeeding or failing, leaves the registry as it was and
\* the environment as it was given (the right operand sees what the left one saw),
\* and the same expression evaluated again against the same registry gives the
\* same value or the same error.
C17_EvaluationIsPure ==
    /\ [](TopBin => SameOutcome(ByParts(latest, base, out.expr)))
    /\ [][Evaluated'
            => /\ world_defs' = world_defs /\ latest' = latest
               /\ (Evaluated /\ input' = input) => out' = out]_vars

\* F(3) + x after @F(x) = x * 2: the call bound x to 3 in its own frame, and the
\* right operand still finds no x
C17_Witness ==
    /\ Registered(<<"F">>)
    /\ input = BinText(CallText(<<"F">>, << <<"3">> >>), <<"+">>, <<"x">>)
    /\ out.kind = "runtime_error" /\ out.msg = "unknown identifier" /\ out.name = <<"x">>
    /\ Len(out.tr) > 4

\* the text the parser was given for the line, and the diagnostic of its panic
Source == normalize_unicode_to_ascii(input)
Diagnostic == caret_message(Source, out.err.byte, out.err.msg)

\* C18: when the parser rejects a token that is present in the input, the
\* diagnostic's line:column is that of the first byte of the rejected token, for
\* an expected-token mismatch and for an unexpected token where a primary
\* expression, an identifier after '@' or a closing ')' was required.
C18_RejectedTokenPosition ==
    \A c \in RejectCases :
        input = c[1]
        => /\ out.kind = "parse_error" /\ out.err.caret
           /\ Diagnostic.line = 1 /\ Diagnostic.col = c[2] + 1

\* the last token of the line as the lexer gives it
LastToken == lex(Source)[Len(lex(Source))]
\* tokens after which the grammar requires another token
OpenTokens ==
    { "At", "LParen", "Comma", "Equal", "Plus", "LBracket", "Arrow", "Semicolon",
      "Underscore", "DblGt" }

\* C19: a parse that fails because the input ends where a token is required is
\* fatal and reports the position right after the last token of the input:
\* @Add(a,b) = a + reports line 1, column 16.
C19_EndOfInputPosition ==
    /\ input \in EofLines
       => /\ LastToken.tok.t \in OpenTokens => out.kind = "parse_error"
          /\ out.kind = "parse_error"
             => /\ out.err.caret
                /\ Diagnostic.line = 1
                /\ Diagnostic.col = LastToken.end + 1
    /\ input = AddPlusText
       => /\ out.kind = "parse_error" /\ out.err.msg = "unexpected token in expression"
          /\ Diagnostic.line = 1 /\ Diagnostic.col = 16

\* @Add(a,b) = a + was rejected at 1:16, one column past the + at column 15
C19_Witness ==
    /\ input = AddPlusText
    /\ out.kind = "parse_error"
    /\ Diagnostic.line = 1 /\ Diagnostic.col = 16
    /\ Source[15] = "+" /\ Len(Source) = 15

\* the place of the '^' in the caret row, counted from the row's first character
CaretAt == CHOOSE i \in 1..Len(Diagnostic.caret_row) : Diagnostic.caret_row[i] = "^"
\* the place of column col of the source line in the source row
ColumnAt == Len(Diagnostic.source_row) - Len(Diagnostic.line_text) + Diagnostic.col

\* C20: in the rendered diagnostic the '^' of the caret row stands at the same
\* character position as the failing column's character in the source row above
\* it, each row's prefix counted, for every line number and column.
C20_CaretUnderColumn ==
    (out.kind = "parse_error" /\ out.err.caret) => CaretAt = ColumnAt

Lexed == out.kind = "tokens"
\* the spans lie in the text, one after the other, none empty
SpansInOrder ==
    \A k \in 1..Len(out.tokens) :
        /\ 0 <= out.tokens[k].start /\ out.tokens[k].start < out.tokens[k].end
        /\ out.tokens[k].end <= Len(input)
        /\ k > 1 => out.tokens[k - 1].end <= out.tokens[k].start
\* a byte that starts no whitespace, operator, punctuation, string, name or number
\* ('&' starts an operator only before another '&')
StartsNothing(c) ==
    /\ ~is_ascii_whitespace(c) /\ SingleCharOp(c) = "none" /\ c # "\""
    /\ ~is_ident_start(c) /\ ~is_ascii_digit(c)
IsCharError(ts) == ts.tok.t = "Error" /\ ts.tok.v # <<>>
Shift(toks, n) ==
    [k \in 1..Len(toks) |-> span(toks[k].tok, toks[k].start + n, toks[k].end + n)]
\* the scan of text ends between tokens: a token written right after it is lexed
\* as if it stood alone
EndsBetweenTokens(text) ==
    lex(text \o <<"@">>) = lex(text) \o <<span(Tok("At"), Len(text), Len(text) + 1)>>

\* C21: lex gives a token sequence for every text; a byte that starts no
\* whitespace, comment, operator, punctuation, string, name or number gives exactly
\* one Error token of length 1 that carries it, and the scan goes on at the next
\* byte: the tokens after it are those of the rest of the text.
C21_LexTotalOneErrorPerByte ==
    Lexed =>
      /\ SpansInOrder
      /\ \A k \in 1..Len(out.tokens) :
            IsCharError(out.tokens[k])
            => /\ out.tokens[k].end = out.tokens[k].start + 1
               /\ out.tokens[k].tok.v = <<Byte(input, out.tokens[k].start)>>
               /\ StartsNothing(Byte(input, out.tokens[k].start))
      /\ \A i \in 0..(Len(input) - 1) :
            StartsNothing(Byte(input, i))
            => \E k \in 1..Len(out.tokens) :
                  LET ts == out.tokens[k] IN
                  /\ ts.start <= i /\ i < ts.end
                  /\ \/ IsCharError(ts)
                     \/ ts.tok.t = "String" \/ (ts.tok.t = "Error" /\ ts.tok.v = <<>>)
                     \/ ts.tok = Tok("DblAmp")
                     \/ (ts.tok.t = "Number" /\ Byte(input, i) = ".")
      /\ \A i \in 0..(Len(input) - 1) :
            (Byte(input, i) \in {"#", "0xC3"} /\ EndsBetweenTokens(Slice(input, 0, i)))
            => out.tokens =
                 lex(Slice(input, 0, i))
                 \o <<span(TokV("Error", <<Byte(input, i)>>), i, i + 1)>>
                 \o Shift(lex(Slice(input, i + 1, Len(input))), i + 1)

\* a#1: the name, the Error token of '#' at byte 1, and the number lexed from byte 2
C21_Witness ==
    /\ input = <<"a","#","1">>
    /\ Lexed
    /\ out.tokens = << span(TokV("Ident", <<"a">>), 0, 1),
                       span(TokV("Error", <<"#">>), 1, 2),
                       span(TokV("Number", <<"1">>), 2, 3) >>

\* equality of two numbers as the claim words it: two NaN are equal, a NaN and
\* another number are not, and two other numbers are equal when they are the same
SameNumber(a, b) ==
    IF a.c = "nan" \/ b.c = "nan" THEN a.c = "nan" /\ b.c = "nan" ELSE a = b
OtherEqOp(op) == IF op = "Eq" THEN "Ne" ELSE "Eq"

\* C22: l == r on two numbers is true when both are NaN and otherwise ordinary
\* numeric equality; l != r is the negation of l == r for every pair of numbers:
\* NaN == NaN is Bool(true) and NaN != NaN is Bool(false).
C22_NanEqualsNan ==
    /\ (TopBin /\ out.expr.op \in {"Eq", "Ne"})
       => LET l == eval_expr(latest, base, out.expr.left, <<>>)
              r == eval_expr(latest, base, out.expr.right, <<>>)
              o == eval_expr(latest, base,
                     EBin(OtherEqOp(out.expr.op), out.expr.left, out.expr.right), <<>>)
          IN (l.st = "ok" /\ r.st = "ok" /\ l.val.k = "Number" /\ r.val.k = "Number")
             => /\ out.kind = "value"
                /\ out.val = VBool(SameNumber(l.val.x, r.val.x) <=> out.expr.op = "Eq")
                /\ o.st = "ok" /\ o.val = VBool(~out.val.b)
    /\ input \in EqExprs => out.kind = "value"
    /\ input = NaNEqNaNText => out.val = VBool(TRUE)
    /\ input = NaNNeNaNText => out.val = VBool(FALSE)

\* 0/0 == NaN printed true: both sides are NaN
C22_Witness ==
    /\ input = BinText(<<"0","/","0">>, <<"=","=">>, NaNName)
    /\ out.kind = "value" /\ out.val = VBool(TRUE)
    /\ out.expr.op = "Eq"

\* the arguments written in the list text a
WrittenArgs(a) == parse_argument_list(lex(a), 1).list

\* C23: an argument list attaches only to a bare name or a bare @Name, and the call
\* then holds the arguments written; an argument list after anything else, an
\* already applied call as in f(1)(2) and @F(1)(2) included, is a parse error, so
\* that no argument list of the source is dropped.
C23_NoArgumentListDropped ==
    \A h \in BareHeads \cup OtherHeads, a \in ArgListTexts :
       /\ \A b \in ArgListTexts : input = ApplyText(h, a, b) => out.kind = "parse_error"
       /\ input = ApplyText(h, a, NoList)
          => IF h \in OtherHeads THEN out.kind = "parse_error"
             ELSE /\ Evaluated /\ out.expr.k = "Bin"
                  /\ out.expr.right.k = "Call"
                  /\ out.expr.right.args = WrittenArgs(a)

\* C24: every fatal parse error, that of a case block without a default arm
\* included, is reported as a caret diagnostic: the message, the line and column
\* of the failure, the source line and the caret row.
C24_EveryParseErrorHasCaret ==
    out.kind = "parse_error"
    => /\ out.err.caret
       /\ Diagnostic.line = 1 /\ Diagnostic.col \in 1..(Len(Source) + 1)
       /\ Diagnostic.line_text = Source

\* byte i begins a maximal run of [A-Za-z_][A-Za-z0-9_]*: it can begin a name, and
\* no run that begins before it reaches it
IsRunStart(i) ==
    /\ is_ident_start(Byte(input, i))
    /\ \A k \in 0..(i - 1) :
          ~(/\ is_ident_start(Byte(input, k))
            /\ \A m \in (k + 1)..(i - 1) : is_ident_continue(Byte(input, m)))
\* the token the claim gives the run [i, e)
RunToken(i, e) ==
    LET text == Slice(input, i, e) IN
    span(TokV(IF text \in {TrueText, FalseText} THEN "Bool" ELSE "Ident", text), i, e)

\* C25: every maximal run of [A-Za-z_][A-Za-z0-9_]* is lexed as one Ident token
\* that spans the whole run, or one Bool token when the run is exactly true or
\* false; a name that begins with an underscore, as _tmp, is one Ident.
C25_RunIsOneIdent ==
    Lexed
    => \A i \in 0..(Len(input) - 1) :
          IsRunStart(i)
          => \E k \in 1..Len(out.tokens) :
                out.tokens[k] = RunToken(i, IdentEnd(input, i + 1))

\* byte i opens the first comment of the text: "/*" stands there and no "//" or
\* "/*" stands before it
IsFirstBlock(i) ==
    /\ i + 1 < Len(input) /\ Byte(input, i) = "/" /\ Byte(input, i + 1) = "*"
    /\ \A k \in 0..(i - 1) : Byte(input, k) = "/" => Byte(input, k + 1) \notin {"/", "*"}
\* the byte after the "*/" that brings the nesting depth, depth at byte i, back to
\* zero, or the end of the text when none does
RECURSIVE NestedEnd(_, _)
NestedEnd(i, depth) ==
    IF depth = 0 \/ i >= Len(input) THEN i
    ELSE IF i + 1 < Len(input) /\ Slice(input, i, i + 2) = OpenText
      THEN NestedEnd(i + 2, depth + 1)
    ELSE IF i + 1 < Len(input) /\ Slice(input, i, i + 2) = CloseText
      THEN NestedEnd(i + 2, depth - 1)
    ELSE NestedEnd(i + 1, depth)

\* C26: a block comment ends only at the "*/" that brings the nesting depth back
\* to zero; no token is emitted for a byte inside it and the scan goes on right
\* after that "*/": the tokens are those before the comment and those of the text
\* after it.
C26_BlockCommentNests ==
    Lexed
    => /\ \A i \in 0..(Len(input) - 1) :
             IsFirstBlock(i)
             => LET e == NestedEnd(i + 2, 1) IN
                /\ out.tokens = lex(Slice(input, 0, i))
                                \o Shift(lex(Slice(input, e, Len(input))), e)
                /\ \A k \in 1..Len(out.tokens) :
                      out.tokens[k].end <= i \/ out.tokens[k].start >= e
       /\ input = OpenText \o InnerComment \o CloseText => out.tokens = <<>>

\* /*/*a*/*/: the inner "*/" left the comment open and the outer one closed it, so
\* that the last two bytes gave no '*' and no '/' token
C26_Witness ==
    /\ input = OpenText \o InnerComment \o CloseText
    /\ Lexed /\ out.tokens = <<>>
    /\ NestedEnd(2, 1) = Len(input)

\* the definition written on a line
DefOf(line) == parse_alg_def(lex(normalize_unicode_to_ascii(line)), 0).node
LineDef == DefOf(input)

\* C27: after any sequence of definitions and :reset the definition list holds at
\* most one entry per name; a definition of a registered name takes the place of
\* that name's entry and a definition of a new name goes to the end, so that the
\* entries stay in first-defined order; :reset leaves the list empty.
C27_OneEntryPerNameInOrder ==
    /\ [](\A i, j \in 1..Len(world_defs) :
             world_defs[i].name = world_defs[j].name => i = j)
    /\ [][/\ \A line \in ReplDefs :
                (input' = line /\ out'.kind = "defined")
                => IF Registered(DefOf(line).name)
                     THEN /\ Len(world_defs') = Len(world_defs)
                          /\ \A i \in 1..Len(world_defs) :
                                world_defs'[i] =
                                   IF world_defs[i].name = DefOf(line).name
                                     THEN DefOf(line) ELSE world_defs[i]
                     ELSE world_defs' = Append(world_defs, DefOf(line))
          /\ out'.kind = "cleared" => world_defs' = <<>>]_vars

\* F, then G, then F again with two parameters: F is still the first entry, with
\* the new parameters, and G the second
C27_Witness ==
    /\ out.kind = "defined" /\ LineDef.name = <<"F">> /\ <<"F">> \in redefined
    /\ Len(world_defs) = 2
    /\ world_defs[1] = LineDef /\ Len(world_defs[1].params) = 2
    /\ world_defs[2].name = <<"G">>

Failed == out.kind \in {"parse_error", "runtime_error"}

\* C28: a line that fails to parse and an expression whose evaluation fails leave
\* the definition list exactly as it was, and the REPL goes on to read the next
\* line.
C28_FailureKeepsDefinitions ==
    /\ [](Failed => Running /\ ENABLED ReplList)
    /\ [][Failed' => world_defs' = world_defs]_vars

\* @F(x) = x + was rejected while F and G were defined: both are still there
C28_Witness ==
    /\ out.kind = "parse_error" /\ Head(input) = "@"
    /\ Len(world_defs) = 2 /\ Registered(<<"F">>) /\ Registered(<<"G">>)

\* C29: after every accepted definition the Defined: line shows the name and the
\* parameters of the algorithm just defined, also when the definition replaced an
\* entry that is not the last of the list.
C29_DefinedLineShowsNewDef ==
    out.kind = "defined"
    => out.name = LineDef.name /\ out.params = LineDef.params

\* the place of name n among the parameters ps
ParamAt(ps, n) == CHOOSE j \in 1..Len(ps) : ps[j] = n
\* the frame of a call of d with vals as C30 words it: inf and NaN are the
\* constants, every other parameter holds the argument at its place
ConstantFrame(d, vals) ==
    [n \in ParamSet(d) \cup {InfName, NaNName} |->
        IF n = InfName THEN VNumber(INFINITY)
        ELSE IF n = NaNName THEN VNumber(NAN)
        ELSE vals[ParamAt(d.params, n)]]

\* C30: in every frame inf and NaN evaluate to +infinity and NaN, also when the
\* algorithm has a parameter named inf or NaN: the constant is bound after the
\* parameters and replaces the argument, while the argument still counts for the
\* arity check.
C30_ConstantsOverrideParams ==
    /\ (Evaluated /\ out.expr.k = "Ident" /\ out.expr.name \in {InfName, NaNName})
       => /\ out.kind = "value"
          /\ out.val = VNumber(IF out.expr.name = InfName THEN INFINITY ELSE NAN)
    /\ (Evaluated /\ IsLiteralCall(out.expr) /\ Registered(out.expr.name))
       => LET d == latest[out.expr.name]
              vals == ArgVals(out.expr)
          IN IF Len(d.params) # Len(vals)
               THEN RuntimeError("argument count mismatch")
               ELSE SameOutcome(
                      eval_expr(latest, ConstantFrame(d, vals), d.body, <<d.name>>))
    /\ (input = CallText(KName, << <<"1">> >>) /\ Registered(KName)
          /\ latest[KName] = DefOf(InfParamDef))
       => out.kind = "value" /\ out.val = VNumber(INFINITY)

\* K(1) under @K(inf) = inf printed inf, not 1
C30_Witness ==
    /\ input = CallText(KName, << <<"1">> >>)
    /\ Registered(KName) /\ latest[KName].params = <<InfName>>
    /\ out.kind = "value" /\ out.val = VNumber(INFINITY)
====
